---- MODULE Spec2Model ----
(***************************************************************************)
(* Action-resolution engine of boardzilla-core: Selection (selection.ts)   *)
(* and Action (action.ts).  A Selection is a record whose configurable     *)
(* fields are constant-or-function unions; an Action is an ordered list of *)
(* Selections plus behaviours.  Objects live in a heap record so that the  *)
(* in-place writes of the code (nextSelection.prompt = ..., boardChoices = *)
(* ...) reach every alias of the written object.                           *)
(***************************************************************************)
EXTENDS Integers, Sequences, FiniteSets, TLC

(***************************************************************************)
(* Bounds of the model.                                                    *)
(***************************************************************************)
\* largest number a player may type in as an argument
MaxTyped == 2
\* the longest list of actions of an action step
MaxStepActions == 2
\* the number of players of a game
MaxPlayers == 2

(***************************************************************************)
(* Arguments (action.ts:14-15): string | number | boolean | GameElement |  *)
(* Player, or an array of them.  A value is tagged with its JS type; the   *)
(* payload is a sequence of integers (one for a single value, the element  *)
(* ids for an array of board elements).                                    *)
(***************************************************************************)
Num(n) == [t |-> "num", v |-> <<n>>]
Str(n) == [t |-> "str", v |-> <<n>>]
El(n) == [t |-> "el", v |-> <<n>>]
Arr(ids) == [t |-> "arr", v |-> ids]
Bool(n) == [t |-> "bool", v |-> <<n>>]

\* string codes used by the actions of the catalogue
Oil == Str(1)
Garbage == Str(2)
Coal == Str(3)

NoArgs == [x \in {} |-> Num(0)]

\* {...args, [name]: option}
WithArg(args, name, option) == (name :> option) @@ args

RECURSIVE SeqIncludes(_, _)
\* Array.prototype.includes
SeqIncludes(s, x) ==
  IF s = <<>> THEN FALSE
  ELSE IF Head(s) = x THEN TRUE ELSE SeqIncludes(Tail(s), x)

(***************************************************************************)
(* A configurable field of a Selection: undefined, a constant, a function  *)
(* of the args given so far, or (board queries) a function reading the     *)
(* live board.  A function of args is the closure                          *)
(*   args => args[dep] === tbl[1].on ? tbl[1].to : ... : c                 *)
(***************************************************************************)
None(dflt) == [k |-> "none", c |-> dflt, dep |-> "", tbl |-> <<>>]
Const(x) == [k |-> "const", c |-> x, dep |-> "", tbl |-> <<>>]
Fn(d, table, dflt) == [k |-> "fn", c |-> dflt, dep |-> d, tbl |-> table]
\* () => space.all(Piece): the pieces that are in the space now
Query(space) == [k |-> "query", c |-> <<El(space)>>, dep |-> "", tbl |-> <<>>]

IsFunction(f) == f.k \in {"fn", "query"}
IsDefined(f) == f.k # "none"

RECURSIVE Lookup(_, _, _)
Lookup(table, x, dflt) ==
  IF table = <<>> THEN dflt
  ELSE IF Head(table).on = x THEN Head(table).to ELSE Lookup(Tail(table), x, dflt)

RECURSIVE PiecesIn(_, _, _)
\* the pieces p..Len(board) that sit in the space, in board order
PiecesIn(board, space, p) ==
  IF p > Len(board) THEN <<>>
  ELSE (IF board[p] = space THEN <<El(p)>> ELSE <<>>) \o PiecesIn(board, space, p + 1)

\* calling a function-valued field: this.min(...args), this.choices(...args), ...
Call(f, args, board) ==
  IF f.k = "query" THEN PiecesIn(board, f.c[1].v[1], 1)
  ELSE IF f.dep \in DOMAIN args THEN Lookup(f.tbl, args[f.dep], f.c) ELSE f.c

\* a function-valued field replaced by its value, any other field kept
Evaluated(f, args, board) ==
  IF IsFunction(f) THEN Const(Call(f, args, board)) ELSE f

(***************************************************************************)
(* Selection (selection.ts:100-165).                                       *)
(***************************************************************************)
Selection(name, type) ==
  [ name |-> name,
    type |-> type,
    prompt |-> None(""),
    skipIfOnlyOne |-> TRUE,
    skipIf |-> None(FALSE),
    expand |-> FALSE,
    choices |-> None(<<>>),
    boardChoices |-> None(<<>>),
    min |-> None(0),
    max |-> None(0),
    initial |-> None(0),
    regexp |-> None(<<>>),
    value |-> None(Bool(1)) ]

\* min ?? 1
MinOr1(s) == IF IsDefined(s.min) THEN s.min.c ELSE 1

isResolved(s) ==
  /\ ~IsFunction(s.prompt)
  /\ ~IsFunction(s.min)
  /\ ~IsFunction(s.max)
  /\ ~IsFunction(s.initial)
  /\ ~IsFunction(s.skipIf)
  /\ ~IsFunction(s.choices)
  /\ ~IsFunction(s.boardChoices)

isMulti(s) == IsDefined(s.min) \/ IsDefined(s.max)

\* resolve that leaves a function-valued max as it is
resolve_keepsMax(s, args, board) ==
  IF isResolved(s) THEN s
  ELSE [s EXCEPT !.prompt = Evaluated(s.prompt, args, board),
                 !.min = Evaluated(s.min, args, board),
                 !.initial = Evaluated(s.initial, args, board),
                 !.skipIf = Evaluated(s.skipIf, args, board),
                 !.choices = Evaluated(s.choices, args, board),
                 !.boardChoices = Evaluated(s.boardChoices, args, board)]

\* the content of the object resolve returns; it is `this` itself when
\* isResolved(s), a new Selection otherwise
resolve(s, args, board) ==
  IF isResolved(s) THEN s
  ELSE [s EXCEPT !.prompt = Evaluated(s.prompt, args, board),
                 !.min = Evaluated(s.min, args, board),
                 !.max = Evaluated(s.max, args, board),
                 !.initial = Evaluated(s.initial, args, board),
                 !.skipIf = Evaluated(s.skipIf, args, board),
                 !.choices = Evaluated(s.choices, args, board),
                 !.boardChoices = Evaluated(s.boardChoices, args, board)]

\* isUnbounded for a range of more than 100 values
isUnbounded_from100(s) ==
  IF s.type = "number" THEN ~IsDefined(s.max) \/ s.max.c - MinOr1(s) >= 100
  ELSE s.type \in {"text", "button"}

\* isUnbounded that leaves the button out
isUnbounded_noButton(s) ==
  IF s.type = "number" THEN ~IsDefined(s.max) \/ s.max.c - MinOr1(s) > 100
  ELSE s.type = "text"

isUnbounded(s) ==
  IF s.type = "number" THEN ~IsDefined(s.max) \/ s.max.c - MinOr1(s) > 100
  ELSE s.type \in {"text", "button"}

\* isPossible without the test of the bounds of a number
isPossible_anyNumber(s) ==
  LET isInBounds == IF IsDefined(s.max) THEN MinOr1(s) <= s.max.c ELSE TRUE IN
  IF s.type = "choices" /\ IsDefined(s.choices) THEN Len(s.choices.c) > 0
  ELSE IF s.type = "board" /\ IsDefined(s.boardChoices)
       THEN isInBounds /\ Len(s.boardChoices.c) >= MinOr1(s)
  ELSE TRUE

\* isPossible with a board selection judged by its candidates alone
isPossible_boardByCount(s) ==
  LET isInBounds == IF IsDefined(s.max) THEN MinOr1(s) <= s.max.c ELSE TRUE IN
  IF s.type = "choices" /\ IsDefined(s.choices) THEN Len(s.choices.c) > 0
  ELSE IF s.type = "board" /\ IsDefined(s.boardChoices)
       THEN Len(s.boardChoices.c) >= MinOr1(s)
  ELSE IF s.type = "number" THEN isInBounds
  ELSE TRUE

isPossible(s) ==
  LET isInBounds == IF IsDefined(s.max) THEN MinOr1(s) <= s.max.c ELSE TRUE IN
  IF s.type = "choices" /\ IsDefined(s.choices) THEN Len(s.choices.c) > 0
  ELSE IF s.type = "board" /\ IsDefined(s.boardChoices)
       THEN isInBounds /\ Len(s.boardChoices.c) >= MinOr1(s)
  ELSE IF s.type = "number" THEN isInBounds
  ELSE TRUE

\* the inclusive integer range [lo, hi] as numbers
range(lo, hi) == IF lo > hi THEN <<>> ELSE [k \in 1..(hi - lo + 1) |-> Num(lo + k - 1)]

RECURSIVE poss(_, _, _, _, _)
RECURSIVE possFrom(_, _, _, _, _)
\* the combinations that extend curr with elements set[i..], sizes lo..hi
poss(set, lo, hi, curr, i) ==
  (IF Len(curr) >= lo THEN <<Arr(curr)>> ELSE <<>>)
  \o (IF Len(curr) < hi THEN possFrom(set, lo, hi, curr, i) ELSE <<>>)

\* those that take set[j] or a later element next
possFrom(set, lo, hi, curr, j) ==
  IF j > Len(set) THEN <<>>
  ELSE poss(set, lo, hi, Append(curr, set[j].v[1]), j + 1) \o possFrom(set, lo, hi, curr, j + 1)

combinations(set, lo, hi) == poss(set, lo, hi, <<>>, 1)

\* this.boardChoices || choices || []
Candidates(s) == IF IsDefined(s.boardChoices) THEN s.boardChoices.c ELSE s.choices.c

options(s) ==
  IF isUnbounded(s) THEN <<>>
  ELSE IF s.type = "number" THEN range(MinOr1(s), s.max.c)
  ELSE IF isMulti(s)
       THEN combinations(Candidates(s), MinOr1(s),
                         IF IsDefined(s.max) THEN s.max.c ELSE Len(Candidates(s)))
  ELSE IF IsDefined(s.boardChoices) THEN s.boardChoices.c
  ELSE IF IsDefined(s.choices) THEN s.choices.c
  ELSE <<>>

\* what isForced returns: a value, or undefined
Forced(value) == [defined |-> TRUE, value |-> value]
Unforced == [defined |-> FALSE, value |-> Num(0)]

\* the candidates of a board selection as one array
AllCandidates(s) == Arr([k \in 1..Len(s.boardChoices.c) |-> s.boardChoices.c[k].v[1]])

isForced(s) ==
  IF ~s.skipIfOnlyOne THEN Unforced
  ELSE IF s.type = "button"
       THEN (IF IsDefined(s.value) THEN Forced(s.value.c) ELSE Unforced)
  ELSE IF IsDefined(s.boardChoices) /\ Len(s.boardChoices.c) = 1 /\ ~isMulti(s)
       THEN Forced(s.boardChoices.c[1])
  ELSE IF /\ IsDefined(s.boardChoices) /\ IsDefined(s.min) /\ IsDefined(s.max)
          /\ Len(s.boardChoices.c) = s.min.c /\ s.min.c = s.max.c
       THEN Forced(AllCandidates(s))
  ELSE IF s.type = "number" /\ IsDefined(s.min) /\ IsDefined(s.max) /\ s.min.c = s.max.c
       THEN Forced(Num(s.min.c))
  ELSE IF s.type = "choices" /\ IsDefined(s.choices) /\ Len(s.choices.c) = 1
       THEN Forced(s.choices.c[1])
  ELSE Unforced

\* outcome of a call that returns an error string or undefined ("" stands
\* for undefined) or throws
Ok == [error |-> "", thrown |-> FALSE]
Err(msg) == [error |-> msg, thrown |-> FALSE]
Throw(msg) == [error |-> msg, thrown |-> TRUE]

RECURSIVE SomeNotIn(_, _)
\* arg.some(a => !results.includes(a)) for an array of board elements
SomeNotIn(ids, results) ==
  IF ids = <<>> THEN FALSE
  ELSE IF ~SeqIncludes(results, El(Head(ids))) THEN TRUE ELSE SomeNotIn(Tail(ids), results)

\* validate once s = this.resolve(...previousArgs) is known
validateResolved(this, s, arg) ==
  IF s.skipIf.k = "const" /\ s.skipIf.c = TRUE THEN Ok
  ELSE IF s.type = "choices" /\ IsDefined(s.choices)
       THEN IF arg.t = "arr" THEN Err("multi-choice stil unsupported")
            ELSE IF SeqIncludes(s.choices.c, arg) THEN Ok ELSE Err("Not a valid choice")
  ELSE IF s.type = "board" /\ IsDefined(s.boardChoices) /\ ~isMulti(this)
       THEN IF SeqIncludes(s.boardChoices.c, arg) THEN Ok ELSE Err("Selected element is not valid")
  ELSE IF s.type = "board" /\ IsDefined(s.boardChoices) /\ arg.t # "arr"
       THEN Throw("Required multi select")
  ELSE IF s.type = "board" /\ IsDefined(s.boardChoices) /\ SomeNotIn(arg.v, s.boardChoices.c)
       THEN Err("Selected elements are not valid")
  ELSE IF s.type = "board" /\ IsDefined(s.boardChoices) /\ IsDefined(s.min) /\ Len(arg.v) < s.min.c
       THEN Err("Below minimum")
  ELSE IF s.type = "board" /\ IsDefined(s.boardChoices) /\ IsDefined(s.max) /\ Len(arg.v) > s.max.c
       THEN Err("Above maximum")
  ELSE IF s.type = "text"
       THEN IF arg.t = "str" /\ (~IsDefined(s.regexp) \/ SeqIncludes(s.regexp.c, arg))
            THEN Ok ELSE Err("Invalid text entered")
  ELSE IF s.type = "number"
       THEN IF arg.t # "num" THEN Err("Not a number")
            ELSE IF IsDefined(s.min) /\ arg.v[1] < s.min.c THEN Err("Below minimum")
            ELSE IF IsDefined(s.max) /\ arg.v[1] > s.max.c THEN Err("Above maximum")
            ELSE Ok
  ELSE Ok

\* validate without the test of skipIf
validate_noSkip(this, arg, previousArgs, board) ==
  validateResolved(this, [resolve(this, previousArgs, board) EXCEPT !.skipIf = None(FALSE)], arg)

validate(this, arg, previousArgs, board) ==
  validateResolved(this, resolve(this, previousArgs, board), arg)

\* selection.validate(args) as action.ts calls it: the value checked is the
\* one supplied under the selection's name, a selection without a supplied
\* value has nothing to check
validateArgs(this, args, board) ==
  IF this.name \in DOMAIN args THEN validate(this, args[this.name], args, board) ELSE Ok

\* overrideOptions: `this` is the receiver after the call, `returned` the
\* Selection handed back
overrideOptions(s, opts) ==
  IF s.type = "board"
  THEN [this |-> [s EXCEPT !.boardChoices = Const(opts)],
        returned |-> [s EXCEPT !.boardChoices = Const(opts)]]
  ELSE [this |-> s,
        returned |-> [Selection("", "choices") EXCEPT !.choices = Const(opts)]]

(***************************************************************************)
(* Behaviours (_cfg.moves).  do(spy) records its call; move() registers    *)
(* args[piece].putInto(args[into]); a behaviour may throw.                 *)
(***************************************************************************)
Spy(id) == [kind |-> "spy", id |-> id, piece |-> "", into |-> "", message |-> ""]
PutInto(id, piece, into) == [kind |-> "putInto", id |-> id, piece |-> piece, into |-> into, message |-> ""]
Throws(id, msg) == [kind |-> "throw", id |-> id, piece |-> "", into |-> "", message |-> msg]

\* the heap with the call of the behaviour logged
Logged(h, move, args) == [h EXCEPT !.calls = Append(@, [id |-> move.id, args |-> args])]

\* one behaviour called with args: the heap after it and what it threw
invoke(h, move, args) ==
  IF move.kind = "throw" THEN [h |-> Logged(h, move, args), threw |-> move.message]
  ELSE IF move.kind = "putInto"
       THEN IF /\ move.piece \in DOMAIN args /\ move.into \in DOMAIN args
               /\ args[move.piece].t = "el" /\ args[move.into].t = "el"
               /\ args[move.piece].v[1] \in 1..Len(h.board)
            THEN [h |-> [Logged(h, move, args) EXCEPT
                           !.board[args[move.piece].v[1]] = args[move.into].v[1]],
                  threw |-> ""]
            ELSE [h |-> Logged(h, move, args), threw |-> "putInto is not a function"]
  ELSE [h |-> Logged(h, move, args), threw |-> ""]

RECURSIVE runMoves(_, _, _)

\* what follows behaviour i, whose call gave r, with the rest stopped after it
afterMove_firstOnly(args, i, r) == [error |-> r.threw, thrown |-> FALSE, h |-> r.h]

\* what follows behaviour i, whose call gave r, were the throw not caught
afterMove_uncaught(args, i, r) ==
  IF r.threw # "" THEN [error |-> r.threw, thrown |-> TRUE, h |-> r.h]
  ELSE runMoves(r.h, args, i + 1)

\* what follows behaviour i, whose call gave r: the catch, or the next behaviour
afterMove(args, i, r) ==
  IF r.threw # "" THEN [error |-> r.threw, thrown |-> FALSE, h |-> r.h]
  ELSE runMoves(r.h, args, i + 1)

\* try { for (const move of this._cfg.moves) move(args) } catch(e) { return e.message }
runMoves(h, args, i) ==
  IF i > Len(h.moves) THEN [error |-> "", thrown |-> FALSE, h |-> h]
  ELSE afterMove(args, i, invoke(h, h.moves[i], args))

(***************************************************************************)
(* Action (action.ts:31-152).  The heap h holds the Action object (name,   *)
(* prompt, _cfg.selections, _cfg.moves) together with the game state the   *)
(* behaviours work on: the board (piece -> space) and the log of the       *)
(* behaviour calls made so far.                                            *)
(***************************************************************************)

\* skipIf === true
SkipIfTrue(s) == s.skipIf.k = "const" /\ s.skipIf.c = TRUE

\* selection.prompt ?? prompt
PromptOr(selection, prompt) == IF IsDefined(selection.prompt) THEN selection.prompt.c ELSE prompt

RECURSIVE scan(_, _, _, _)

\* one round of the loop without the test of skipIf
scanAt_noSkip(h, args, i, prompt, selection) ==
  IF h.selections[i].name \notin DOMAIN args
  THEN [found |-> TRUE, idx |-> i, selection |-> selection,
        prompt |-> PromptOr(selection, prompt)]
  ELSE scan(h, args, i + 1, PromptOr(selection, prompt))

\* one round of the for loop of _nextSelection, selection = s.resolve(args)
scanAt(h, args, i, prompt, selection) ==
  IF SkipIfTrue(selection) THEN scan(h, args, i + 1, prompt)
  ELSE IF h.selections[i].name \notin DOMAIN args
       THEN [found |-> TRUE, idx |-> i, selection |-> selection,
             prompt |-> PromptOr(selection, prompt)]
       ELSE scan(h, args, i + 1, PromptOr(selection, prompt))

\* the for loop of _nextSelection from selection i on, with the prompt
\* inherited so far
scan(h, args, i, prompt) ==
  IF i > Len(h.selections)
  THEN [found |-> FALSE, idx |-> 0, selection |-> Selection("", "button"), prompt |-> prompt]
  ELSE scanAt(h, args, i, prompt, resolve(h.selections[i], args, h.board))

\* the object the loop found is the definition h.selections[ref] itself when
\* ref # 0 (resolve returned this), a fresh copy otherwise
RefOf(h, r) == IF r.found /\ isResolved(h.selections[r.idx]) THEN r.idx ELSE 0

\* if (nextSelection && prompt) nextSelection.prompt = prompt: the write
\* reaches the definition when the selection is the definition
setPrompt(h, r, ref) ==
  IF r.found /\ r.prompt # ""
  THEN [found |-> TRUE, idx |-> r.idx, ref |-> ref,
        selection |-> [r.selection EXCEPT !.prompt = Const(r.prompt)],
        h |-> IF ref # 0 THEN [h EXCEPT !.selections[ref].prompt = Const(r.prompt)] ELSE h]
  ELSE [found |-> r.found, idx |-> r.idx, ref |-> ref, selection |-> r.selection, h |-> h]

\* _nextSelection: the resolved selection, its reference, and the heap after
\* the call
_nextSelection(h, args) == setPrompt(h, scan(h, args, 1, h.prompt), RefOf(h, scan(h, args, 1, h.prompt)))

\* PendingMove {action, args, selection}; selection is a reference: to the
\* definition h.selections[ref] when ref # 0, to the fresh copy otherwise
PendingMove(h, args, ref, selection) ==
  [action |-> h.name, args |-> args, ref |-> ref, selection |-> selection]

\* the selection a holder of the pending move reads from it
SelectionOf(h, move) ==
  IF move.ref # 0 THEN h.selections[move.ref] ELSE move.selection

Undefined(h) == [defined |-> FALSE, moves |-> <<>>, h |-> h]
Moves(h, moves) == [defined |-> TRUE, moves |-> moves, h |-> h]

RECURSIVE _getResolvedSelections(_, _)

\* the body of the loop with mayExpand left as it is
accumulate_keepsExpand(acc, selection, option, submoves) ==
  IF ~submoves.defined
  THEN [acc EXCEPT !.pruned = TRUE, !.h = submoves.h]
  ELSE [acc EXCEPT !.possibleOptions = Append(@, option),
                   !.resolvedSelections = @ \o submoves.moves,
                   !.h = submoves.h]

\* the body of the loop over the options: acc carries possibleOptions,
\* pruned, resolvedSelections, mayExpand and the heap
accumulate(acc, selection, option, submoves) ==
  IF ~submoves.defined
  THEN [acc EXCEPT !.pruned = TRUE, !.h = submoves.h]
  ELSE [acc EXCEPT !.possibleOptions = Append(@, option),
                   !.mayExpand = IF selection.expand /\ Len(submoves.moves) = 0 THEN FALSE ELSE @,
                   !.resolvedSelections = @ \o submoves.moves,
                   !.h = submoves.h]

\* the args of a recursive call that are the args of the caller
withOption_sameArgs(args, selection, option) == args

\* the args of the recursive call for an option: {...args, [selection.name]: option}
withOption(args, selection, option) == WithArg(args, selection.name, option)

RECURSIVE optionsBetween(_, _, _, _, _, _)
\* the rounds of the for loop for the options i..j, in this order, each
\* round starting from what the round before left; the rounds are split in
\* two halves to keep the evaluation shallow (the test on acc, which no
\* round meets, has the rounds before i evaluated before those from i on)
optionsBetween(args, selection, opts, i, j, acc) ==
  IF i > j \/ Len(acc.possibleOptions) >= i THEN acc
  ELSE IF i = j
       THEN accumulate(acc, selection, opts[i],
              _getResolvedSelections(acc.h, WithArg(args, selection.name, opts[i])))
  ELSE optionsBetween(args, selection, opts, ((i + j) \div 2) + 1, j,
         optionsBetween(args, selection, opts, i, (i + j) \div 2, acc))

\* the loop left after the first option
forOptions_firstOnly(args, selection, opts, i, acc) ==
  optionsBetween(args, selection, opts, i, IF i < Len(opts) THEN i ELSE Len(opts), acc)

\* the for loop over selection.options() from option i on
forOptions(args, selection, opts, i, acc) ==
  optionsBetween(args, selection, opts, i, Len(opts), acc)

\* the selection and the heap without the override
overridden_never(next, acc) == [next EXCEPT !.h = acc.h]

\* if (pruned && !selection.isMulti()) selection.overrideOptions(possibleOptions):
\* the selection as the pending move sees it, and the heap
overridden(next, acc) ==
  IF acc.pruned /\ ~isMulti(next.selection)
  THEN [next EXCEPT
          !.selection = overrideOptions(next.selection, acc.possibleOptions).this,
          !.h = IF next.ref # 0
                THEN [acc.h EXCEPT !.selections[next.ref] =
                        overrideOptions(next.selection, acc.possibleOptions).this]
                ELSE acc.h]
  ELSE [next EXCEPT !.h = acc.h]

\* the returns that follow the override, a board selection treated like
\* any other
returnMoves_boardLikeAny(h, args, next, acc) ==
  IF Len(acc.resolvedSelections) = 0
  THEN Moves(next.h, <<PendingMove(h, args, next.ref, next.selection)>>)
  ELSE IF acc.mayExpand THEN Moves(next.h, acc.resolvedSelections)
  ELSE IF next.selection.skipIfOnlyOne /\ Len(acc.possibleOptions) = 1
       THEN Moves(next.h, acc.resolvedSelections)
  ELSE Moves(next.h, <<PendingMove(h, args, next.ref, next.selection)>>)

\* the returns that follow the override, without the skipIfOnlyOne return
returnMoves_noSkip(h, args, next, acc) ==
  IF Len(acc.resolvedSelections) = 0 \/ next.selection.type = "board"
  THEN Moves(next.h, <<PendingMove(h, args, next.ref, next.selection)>>)
  ELSE IF acc.mayExpand THEN Moves(next.h, acc.resolvedSelections)
  ELSE Moves(next.h, <<PendingMove(h, args, next.ref, next.selection)>>)

\* the returns that follow the override, without the return for expand
returnMoves_noExpand(h, args, next, acc) ==
  IF Len(acc.resolvedSelections) = 0 \/ next.selection.type = "board"
  THEN Moves(next.h, <<PendingMove(h, args, next.ref, next.selection)>>)
  ELSE IF next.selection.skipIfOnlyOne /\ Len(acc.possibleOptions) = 1
       THEN Moves(next.h, acc.resolvedSelections)
  ELSE Moves(next.h, <<PendingMove(h, args, next.ref, next.selection)>>)

\* the returns that follow the override
returnMoves(h, args, next, acc) ==
  IF Len(acc.resolvedSelections) = 0 \/ next.selection.type = "board"
  THEN Moves(next.h, <<PendingMove(h, args, next.ref, next.selection)>>)
  ELSE IF acc.mayExpand THEN Moves(next.h, acc.resolvedSelections)
  ELSE IF next.selection.skipIfOnlyOne /\ Len(acc.possibleOptions) = 1
       THEN Moves(next.h, acc.resolvedSelections)
  ELSE Moves(next.h, <<PendingMove(h, args, next.ref, next.selection)>>)

\* the same with a pruned option taken for an infeasible selection
afterOptions_strict(h, args, next, acc) ==
  IF Len(acc.possibleOptions) = 0 \/ acc.pruned THEN Undefined(acc.h)
  ELSE returnMoves(h, args, overridden(next, acc), acc)

\* what _getResolvedSelections does once the loop is done
afterOptions(h, args, next, acc) ==
  IF Len(acc.possibleOptions) = 0 THEN Undefined(acc.h)
  ELSE returnMoves(h, args, overridden(next, acc), acc)

\* the same with an empty list returned for a selection that is not possible
resolveNext_emptyList(h, args, next) ==
  IF ~next.found \/ ~isPossible(next.selection) THEN Moves(next.h, <<>>)
  ELSE IF isUnbounded(next.selection)
       THEN Moves(next.h, <<PendingMove(h, args, next.ref, next.selection)>>)
  ELSE afterOptions(h, args, next,
         forOptions(args, next.selection, options(next.selection), 1,
           [possibleOptions |-> <<>>, pruned |-> FALSE, resolvedSelections |-> <<>>,
            mayExpand |-> next.selection.expand, h |-> next.h]))

\* the same with the behaviours run as soon as no selection is left
resolveNext_applies(h, args, next) ==
  IF ~next.found THEN Moves(runMoves(next.h, args, 1).h, <<>>)
  ELSE IF ~isPossible(next.selection) THEN Undefined(next.h)
  ELSE IF isUnbounded(next.selection)
       THEN Moves(next.h, <<PendingMove(h, args, next.ref, next.selection)>>)
  ELSE afterOptions(h, args, next,
         forOptions(args, next.selection, options(next.selection), 1,
           [possibleOptions |-> <<>>, pruned |-> FALSE, resolvedSelections |-> <<>>,
            mayExpand |-> next.selection.expand, h |-> next.h]))

\* the same with an unbounded selection resolved like any other
resolveNext_noUnbounded(h, args, next) ==
  IF ~next.found THEN Moves(next.h, <<>>)
  ELSE IF ~isPossible(next.selection) THEN Undefined(next.h)
  ELSE afterOptions(h, args, next,
         forOptions(args, next.selection, options(next.selection), 1,
           [possibleOptions |-> <<>>, pruned |-> FALSE, resolvedSelections |-> <<>>,
            mayExpand |-> next.selection.expand, h |-> next.h]))

\* _getResolvedSelections once next = _nextSelection(args) is known
resolveNext(h, args, next) ==
  IF ~next.found THEN Moves(next.h, <<>>)
  ELSE IF ~isPossible(next.selection) THEN Undefined(next.h)
  ELSE IF isUnbounded(next.selection)
       THEN Moves(next.h, <<PendingMove(h, args, next.ref, next.selection)>>)
  ELSE afterOptions(h, args, next,
         forOptions(args, next.selection, options(next.selection), 1,
           [possibleOptions |-> <<>>, pruned |-> FALSE, resolvedSelections |-> <<>>,
            mayExpand |-> next.selection.expand, h |-> next.h]))

_getResolvedSelections(h, args) == resolveNext(h, args, _nextSelection(h, args))

RECURSIVE validateAll(_, _, _)

\* the validation loop of _process after selection i gave error
validateNext(h, args, i, error) ==
  IF error.thrown \/ error.error # "" THEN error ELSE validateAll(h, args, i + 1)

\* the validation loop of _process from selection i on: the first error
validateAll(h, args, i) ==
  IF i > Len(h.selections) THEN Ok
  ELSE validateNext(h, args, i, validateArgs(h.selections[i], args, h.board))

\* error || msg
OrElse(error, msg) == IF error # "" THEN error ELSE msg

\* _process that runs the behaviours whatever the resolution returned
processResolved_eager(args, error, resolvedSelections) ==
  runMoves(resolvedSelections.h, args, 1)

\* _process after the resolution of the args
processResolved(args, error, resolvedSelections) ==
  IF ~resolvedSelections.defined
  THEN [error |-> OrElse(error.error, "unknown error during action._process"),
        thrown |-> FALSE, h |-> resolvedSelections.h]
  ELSE IF Len(resolvedSelections.moves) # 0
  THEN [error |-> OrElse(error.error, "incomplete action"),
        thrown |-> FALSE, h |-> resolvedSelections.h]
  ELSE runMoves(resolvedSelections.h, args, 1)

\* _process after the validation loop
processValidated(h, args, error) ==
  IF error.thrown THEN [error |-> error.error, thrown |-> TRUE, h |-> h]
  ELSE processResolved(args, error, _getResolvedSelections(h, args))

_process(h, args) == processValidated(h, args, validateAll(h, args, 1))

(***************************************************************************)
(* The builder methods of Action (action.ts:179-182, 261-563).             *)
(***************************************************************************)
action(name, prompt) ==
  [name |-> name, prompt |-> prompt, selections |-> <<>>, moves |-> <<>>,
   condition |-> None(TRUE)]

\* the constructor given a condition: if (condition) this._cfg.condition = condition
actionIf(name, prompt, condition) ==
  [action(name, prompt) EXCEPT
     !.condition = IF IsFunction(condition) \/ condition.c = TRUE THEN condition ELSE @]

\* Action.isPossible
actionIsPossible(a) ==
  IF IsFunction(a.condition) THEN Call(a.condition, NoArgs, <<>>)
  ELSE IF IsDefined(a.condition) THEN a.condition.c ELSE TRUE

do(a, move) == [a EXCEPT !.moves = Append(@, move)]

chooseFrom(a, name, choices, opt) ==
  [a EXCEPT !.selections = Append(@,
     [Selection(name, "choices") EXCEPT !.choices = choices, !.prompt = opt.prompt,
        !.skipIfOnlyOne = opt.skipIfOnlyOne, !.skipIf = opt.skipIf, !.expand = opt.expand])]

enterText(a, name, prompt, regexp) ==
  [a EXCEPT !.selections = Append(@,
     [Selection(name, "text") EXCEPT !.prompt = prompt, !.regexp = regexp])]

confirm(a, prompt) ==
  [a EXCEPT !.selections = Append(@,
     [Selection("__confirm__", "button") EXCEPT !.prompt = prompt, !.skipIfOnlyOne = FALSE,
        !.value = Const(Bool(1))])]

chooseNumber(a, name, min, max, opt) ==
  [a EXCEPT !.selections = Append(@,
     [Selection(name, "number") EXCEPT !.min = min, !.max = max,
        !.initial = min, !.prompt = opt.prompt,
        !.skipIfOnlyOne = opt.skipIfOnlyOne, !.skipIf = opt.skipIf, !.expand = opt.expand])]

chooseOnBoard(a, name, choices, min, max, opt) ==
  [a EXCEPT !.selections = Append(@,
     [Selection(name, "board") EXCEPT !.boardChoices = choices, !.min = min, !.max = max,
        !.prompt = opt.prompt, !.skipIfOnlyOne = opt.skipIfOnlyOne, !.skipIf = opt.skipIf,
        !.expand = opt.expand])]

move(a, id, pieceName, piece, intoName, into, prompt) ==
  [a EXCEPT !.selections = @ \o
     << [Selection(pieceName, "board") EXCEPT !.prompt = prompt, !.skipIfOnlyOne = FALSE,
           !.boardChoices = piece],
        [Selection(intoName, "board") EXCEPT !.prompt = prompt, !.boardChoices = into] >>,
     !.moves = Append(@, PutInto(id, pieceName, intoName))]

\* the options argument of the choose methods left out
Dflt == [prompt |-> None(""), skipIfOnlyOne |-> TRUE, skipIf |-> None(FALSE), expand |-> FALSE]

(***************************************************************************)
(* The actions the model is run on.  The board has two pieces (elements 1  *)
(* and 2) that start in space 3; space 4 is the other space.               *)
(***************************************************************************)
Board0 == <<3, 3>>

\* n => n and n => n * 2 on the numbers 1..3
TimesOne == Fn("n", <<[on |-> Num(1), to |-> 1], [on |-> Num(2), to |-> 2],
                      [on |-> Num(3), to |-> 3], [on |-> Num(8), to |-> 8]>>, 0)
TimesTwo == Fn("n", <<[on |-> Num(1), to |-> 2], [on |-> Num(2), to |-> 4],
                      [on |-> Num(3), to |-> 6]>>, 0)
\* r => r === 'oil' ? 3 : 1
OilMax == Fn("r", <<[on |-> Oil, to |-> 3]>>, 1)

Counters ==
  do(chooseNumber(chooseNumber(action("counters", "add some counters"),
       "n", Const(0), Const(3), [Dflt EXCEPT !.prompt = Const("how many?")]),
       "m", TimesOne, TimesTwo, [Dflt EXCEPT !.prompt = Const("how many more?")]),
     Spy(1))

NoChoice == do(chooseFrom(action("nochoice", "pick"), "c", Const(<<>>), Dflt), Spy(1))

Resource(name, first) ==
  do(chooseNumber(chooseFrom(action(name, "p"), "r", Const(<<Oil, Garbage>>), first),
       "amount", None(0), OilMax, Dflt),
     Spy(1))

OnlyOil(name, first) ==
  do(chooseNumber(chooseFrom(action(name, "p"), "r", Const(<<Oil>>), first),
       "amount", None(0), OilMax, Dflt),
     Spy(1))

\* choices of which 8 leads to an empty number range
Viable ==
  do(chooseNumber(chooseFrom(action("viable", "pick a number"), "n",
         Const(<<Num(1), Num(2), Num(8)>>), Dflt),
       "m", TimesOne, Const(4), Dflt),
     Spy(1))

\* the same with the first choices computed
ViableFn ==
  do(chooseNumber(chooseFrom(action("viablefn", "pick a number"), "n",
         Fn("", <<>>, <<Num(8), Num(2)>>), Dflt),
       "m", TimesOne, Const(4), Dflt),
     Spy(1))

\* a board choice among constant elements; the following number is skipped
\* for m = 1 and has an empty range for piece 2
Prune ==
  do(chooseNumber(chooseOnBoard(chooseFrom(action("prune", "choose"), "m",
         Const(<<Num(1), Num(2)>>), [Dflt EXCEPT !.prompt = Fn("", <<>>, "which way?")]),
       "piece", Const(<<El(1), El(2)>>), None(0), None(0), Dflt),
       "count", None(0), Fn("piece", <<[on |-> El(1), to |-> 2]>>, 0),
       [Dflt EXCEPT !.skipIf = Fn("m", <<[on |-> Num(1), to |-> TRUE]>>, FALSE)]),
     Spy(1))

\* move a piece of space 3 into space 4, then log
Discard ==
  do(move(action("discard", "Discard"), 1, "piece", Query(3), "into", Const(<<El(4)>>), None("")),
     Spy(2))

Confirmed ==
  do(confirm(chooseFrom(action("confirmed", "Buy"), "r", Const(<<Oil, Garbage>>), Dflt),
       Const("Spend?")),
     Spy(1))

Guess ==
  do(chooseNumber(enterText(action("guess", "Guess a word"), "t", None(""), Const(<<Oil, Coal>>)),
       "n", Const(2), Const(1), Dflt),
     Spy(1))

Failing ==
  do(do(do(chooseFrom(action("failing", "p"), "r", Const(<<Oil, Garbage>>), Dflt),
     Spy(1)), Throws(2, "boom")), Spy(3))

\* a move whose second behaviour throws
Botched ==
  do(do(move(action("botched", "Discard"), 1, "piece", Query(3), "into", Const(<<El(4)>>), None("")),
     Throws(2, "boom")), Spy(3))

\* the grade is not asked for oil; coal has no grade to pick
Graded ==
  do(chooseFrom(chooseFrom(action("graded", "Take resources"), "r",
         Const(<<Oil, Garbage, Coal>>), Dflt),
       "n", Fn("r", <<[on |-> Coal, to |-> <<>>]>>, <<Num(1), Num(2)>>),
       [Dflt EXCEPT !.skipIf = Fn("r", <<[on |-> Oil, to |-> TRUE]>>, FALSE)]),
     Spy(1))

\* the same with the resource expanded if that may be: oil completes the
\* action at once, garbage leads on to the grade
Assay ==
  do(chooseFrom(chooseFrom(action("assay", "Take resources"), "r",
         Const(<<Oil, Garbage, Coal>>), [Dflt EXCEPT !.expand = TRUE]),
       "n", Fn("r", <<[on |-> Coal, to |-> <<>>]>>, <<Num(1), Num(2)>>),
       [Dflt EXCEPT !.skipIf = Fn("r", <<[on |-> Oil, to |-> TRUE]>>, FALSE)]),
     Spy(1))

\* one or two pieces of space 3, then as many counters as OilMax allows
Mulligan ==
  do(chooseNumber(chooseOnBoard(action("mulligan", "Mulligan"), "cards", Query(3),
         Const(1), Const(2), Dflt),
       "n", None(0), Fn("cards", <<[on |-> Arr(<<1, 2>>), to |-> 0]>>, 1), Dflt),
     Spy(1))

Unbounded ==
  do(chooseNumber(chooseNumber(action("unbounded", "pick"), "n", Const(1), None(0), Dflt),
       "m", Const(10), Const(4), Dflt),
     Spy(1))

\* a number of a range wider than 100, then a number without a legal value
Wide ==
  do(chooseNumber(chooseNumber(action("wide", "pick"), "n", Const(0), Const(101), Dflt),
       "m", Const(10), Const(4), Dflt),
     Spy(1))

\* a number of the range 1..101, then a number without a legal value
Ample ==
  do(chooseNumber(chooseNumber(action("ample", "pick"), "n", None(0), Const(101), Dflt),
       "m", Const(10), Const(4), Dflt),
     Spy(1))

\* a piece of space 3 as it is now, then a count that piece 2 does not allow
Cull ==
  do(chooseNumber(chooseOnBoard(action("cull", "Cull"), "piece", Query(3),
         None(0), None(0), Dflt),
       "count", None(0), Fn("piece", <<[on |-> El(1), to |-> 2]>>, 0), Dflt),
     Spy(1))

\* any text
Note == do(enterText(action("note", "Write a note"), "t", None(""), None(<<>>)), Spy(1))

\* one or two pieces of space 3, expanded if that may be, a confirmation,
\* then a number
Sealed ==
  do(chooseNumber(confirm(chooseOnBoard(action("sealed", "Seal"), "cards", Query(3),
           Const(1), Const(2), [Dflt EXCEPT !.expand = TRUE]),
         Const("Sure?")),
       "n", None(0), Const(2), Dflt),
     Spy(1))

\* some of five cards (elements 5..9, which no behaviour moves), then a
\* number that has a legal value for the wanted cards only
Draft(name, min, max, wanted) ==
  do(chooseNumber(chooseOnBoard(action(name, "Draft"), "cards",
         Const(<<El(5), El(6), El(7), El(8), El(9)>>), min, max, Dflt),
       "n", None(0), Fn("cards", <<[on |-> Arr(wanted), to |-> 1]>>, 0), Dflt),
     Spy(1))

Catalogue ==
  { Counters, NoChoice,
    Resource("resource", Dflt), Resource("expanded", [Dflt EXCEPT !.expand = TRUE]),
    OnlyOil("onlyoil", Dflt), OnlyOil("noskip", [Dflt EXCEPT !.skipIfOnlyOne = FALSE]),
    Viable, ViableFn, Prune, Discard, Confirmed, Guess, Failing, Botched, Graded, Mulligan,
    Unbounded, Wide, Note,
    Draft("draft", Const(1), Const(3), <<7, 8, 9>>), Draft("upto", None(0), Const(2), <<8, 9>>),
    Sealed, Assay, Ample, Draft("spare", None(0), Const(0), <<>>), Cull }

\* the values a player may send for a selection
Typed == {Num(n) : n \in 0..MaxTyped} \cup {Coal, El(2), Arr(<<1, 2>>)}

(***************************************************************************)
(* The state machine: one Action object and the game state it works on,    *)
(* and a player building up the args of a move.  last records the call     *)
(* just made on the Action: its args, what it returned and the heap it     *)
(* started from.  Once behaviours have run the move is over and the Action *)
(* instance is discarded.                                                  *)
(***************************************************************************)
(***************************************************************************)
(* Game (game.ts:188-334): the actions of a game, the actions a player is  *)
(* allowed and their resolution.  The flow and the player are not part of  *)
(* the sources: the action step the flow reports (flow.actionNeeded) and   *)
(* player.isCurrent() are fields of the game state.                        *)
(***************************************************************************)
\* an action without selections
Pass == do(action("pass", "Pass"), Spy(1))

\* actions constructed with a condition: the constant false, a function
\* that returns false
Never == do(actionIf("never", "Never", Const(FALSE)), Spy(1))
NeverFn == do(actionIf("neverfn", "Never", Fn("", <<>>, FALSE)), Spy(1))

\* this.actions: each name gives a new Action whenever it is called
Registry ==
  [name \in {"counters", "nochoice", "pass", "never", "neverfn"} |->
     CHOOSE a \in {Counters, NoChoice, Pass, Never, NeverFn} : a.name = name]

\* godModeActions(): built from the board at the time of the call
GodModeActions ==
  [name \in {"_godMove", "_godEdit"} |->
     IF name = "_godMove"
     THEN move(action("_godMove", "Move"), 1,
               "piece", Const(<<El(1), El(2)>>),
               "into", Const(<<El(1), El(2), El(3), El(4)>>), None(""))
     ELSE do(enterText(chooseFrom(chooseOnBoard(action("_godEdit", "Change"), "element",
                 Const(<<El(1), El(2), El(3), El(4)>>), None(0), None(0), Dflt),
               "property", Fn("element", <<>>, <<Str(4), Str(5)>>),
               [Dflt EXCEPT !.prompt = Const("Change property")]),
             "value", Fn("property", <<>>, "Change"), None(<<>>)),
           Spy(9))]

\* Object.keys(this.godModeActions())
GodModeNames == <<"_godMove", "_godEdit">>

\* the names an action can be asked for, in a fixed order, and the string
\* value that stands for a name as an argument
ActionNames ==
  <<"counters", "nochoice", "pass", "never", "neverfn", "_godMove", "_godEdit", "nosuch">>
NameValue(name) == Str(10 + (CHOOSE i \in 1..Len(ActionNames) : ActionNames[i] = name))

\* the other set of actions a game can be given
Registry2 == [name \in {"pass"} |-> Pass]

\* this.actions: 0 stands for no actions defined yet
ActionsOf(g) ==
  IF g.actions = 1 THEN Registry
  ELSE IF g.actions = 2 THEN Registry2
  ELSE [name \in {} |-> Pass]

\* contextualizeBoardToPlayer(player): the game after the call; the call
\* returns g.ctx (0 stands for undefined)
contextualizeBoardToPlayer(g, player) == [g EXCEPT !.ctx = player]

RECURSIVE inContextOfPlayer(_, _)

\* inContextOfPlayer once fn is over: r is the game fn left and whether it
\* threw; the context is put back only when fn returned
afterFn(prev, r) ==
  IF r.thrown THEN r
  ELSE [game |-> contextualizeBoardToPlayer(r.game, prev), thrown |-> FALSE]

\* fn after the call nested in it gave r: an error goes on up, otherwise
\* fn throws or returns
afterNested(frames, r) ==
  IF r.thrown THEN r ELSE [game |-> r.game, thrown |-> frames[1].throws]

\* fn of a frame: it calls inContextOfPlayer for the frames nested in it, if
\* any, and then throws or returns
runFn(g, frames) ==
  IF Len(frames) > 1 THEN afterNested(frames, inContextOfPlayer(g, Tail(frames)))
  ELSE [game |-> g, thrown |-> frames[1].throws]

\* inContextOfPlayer(frames[1].player, fn): the game after the call and
\* whether the call threw
inContextOfPlayer(g, frames) ==
  afterFn(g.ctx, runFn(contextualizeBoardToPlayer(g, frames[1].player), frames))

\* a call of inContextOfPlayer for a player, fn calling nothing
Frame(player, throws) == [player |-> player, throws |-> throws]

\* Game.action(name, player): found is false where the code throws; god
\* mode asks godModeActions(), which throws unless the game has started
Game_action(g, name) ==
  IF g.godMode /\ g.phase # "started" THEN [found |-> FALSE, action |-> action(name, "")]
  ELSE IF g.godMode /\ name \in DOMAIN GodModeActions
  THEN [found |-> TRUE, action |-> GodModeActions[name]]
  ELSE IF name \in DOMAIN ActionsOf(g) THEN [found |-> TRUE, action |-> ActionsOf(g)[name]]
  ELSE [found |-> FALSE, action |-> action(name, "")]

\* a call on the game that returned, or threw, and the game it left
Done(g) == [game |-> g, thrown |-> FALSE]
Thrown(g) == [game |-> g, thrown |-> TRUE]

\* defineFlow without the test of the phase
defineFlow_anyPhase(g, f) == Done([g EXCEPT !.flowDefinition = f])

\* Game.defineFlow(flowDefinition), Game.defineActions(actions)
defineFlow(g, f) ==
  IF g.phase # "new" THEN Thrown(g) ELSE Done([g EXCEPT !.flowDefinition = f])

defineActions(g, a) ==
  IF g.phase # "new" THEN Thrown(g) ELSE Done([g EXCEPT !.actions = a])

\* Game.start(): buildFlow calls this.flowDefinition(), which throws when no
\* flow was defined, the phase being 'started' by then
start(g) ==
  IF g.phase = "started" THEN Thrown(g)
  ELSE IF g.players = 0 THEN Thrown(g)
  ELSE IF g.flowDefinition = 0 THEN Thrown([g EXCEPT !.phase = "started"])
  ELSE Done([g EXCEPT !.phase = "started"])

\* Game.finish(winner)
finish(g) == Done([g EXCEPT !.phase = "finished"])

\* Game.play(): the flow it runs is not part of the sources
play(g) == IF g.phase # "started" THEN Thrown(g) ELSE Done(g)

\* Game.godModeActions(): the call itself
godModeActions(g) == IF g.phase # "started" THEN Thrown(g) ELSE Done(g)

\* the game Game.action(name, player) leaves: the god-mode branch runs
\* outside inContextOfPlayer, the lookup of the player's action inside it
afterAction(g, name, player) ==
  IF g.godMode /\ (g.phase # "started" \/ name \in DOMAIN GodModeActions) THEN g
  ELSE inContextOfPlayer(g, <<Frame(player, name \notin DOMAIN ActionsOf(g))>>).game

\* actionStep.actions.filter(a => this.action(a, player).isPossible())
RECURSIVE filterPossible(_, _)
filterPossible(g, actions) ==
  IF actions = <<>> THEN <<>>
  ELSE (IF actionIsPossible(Game_action(g, Head(actions)).action) THEN <<Head(actions)>> ELSE <<>>)
       \o filterPossible(g, Tail(actions))

\* this.godMode ? Object.keys(this.godModeActions()) : []
godAllowed(g) == IF g.godMode THEN GodModeNames ELSE <<>>

\* Game.allowedActions(player)
allowedActions(g) ==
  IF ~g.current
  THEN [step |-> "", prompt |-> "", skipIfOnlyOne |-> TRUE, expand |-> TRUE,
        actions |-> godAllowed(g)]
  ELSE IF g.step.defined
  THEN [step |-> g.step.step, prompt |-> g.step.prompt,
        skipIfOnlyOne |-> g.step.skipIfOnlyOne, expand |-> g.step.expand,
        actions |-> godAllowed(g) \o filterPossible(g, g.step.actions)]
  ELSE [step |-> "", prompt |-> "", skipIfOnlyOne |-> TRUE, expand |-> TRUE, actions |-> <<>>]

\* the pending moves a call returned, each with the selection it refers to
Snapshot(r) ==
  [defined |-> r.defined,
   moves |-> [i \in 1..Len(r.moves) |->
                [action |-> r.moves[i].action, args |-> r.moves[i].args, ref |-> 0,
                 selection |-> SelectionOf(r.h, r.moves[i])]]]

\* the objects of an Action just constructed, on the board of the game
NewGameHeap(a) ==
  [name |-> a.name, prompt |-> a.prompt, selections |-> a.selections,
   moves |-> a.moves, board |-> Board0, calls |-> <<>>]

\* playerAction._getResolvedSelections(args) on the Action just constructed
resolveAction(a, args) == Snapshot(_getResolvedSelections(NewGameHeap(a), args))

\* the move made for an action that needs no selection
ActionMove(a) ==
  [action |-> a.name, args |-> NoArgs, ref |-> 0,
   selection |-> resolve([Selection("__action__", "button") EXCEPT
                            !.prompt = Const(a.prompt), !.value = Const(NameValue(a.name))],
                         NoArgs, <<>>)]

RECURSIVE namesAsChoices(_)
namesAsChoices(actions) ==
  IF actions = <<>> THEN <<>> ELSE <<NameValue(Head(actions))>> \o namesAsChoices(Tail(actions))

\* the move that asks which action to take
ChooseActionMove(prompt, actions) ==
  [action |-> "/", args |-> NoArgs, ref |-> 0,
   selection |-> resolve([Selection("__action__", "choices") EXCEPT
                            !.prompt = Const(prompt), !.choices = Const(namesAsChoices(actions))],
                         NoArgs, <<>>)]

\* the body of the loop over the allowed actions
offer(allowed, a, acc, submoves) ==
  IF ~submoves.defined THEN acc
  ELSE [possibleActions |-> Append(acc.possibleActions, a.name),
        resolvedSelections |-> acc.resolvedSelections \o
          (IF allowed.expand /\ Len(submoves.moves) = 0 THEN <<ActionMove(a)>>
           ELSE submoves.moves)]

RECURSIVE forActions(_, _, _, _)
\* the loop over the allowed actions from action i on
forActions(g, allowed, i, acc) ==
  IF i > Len(allowed.actions) THEN acc
  ELSE forActions(g, allowed, i + 1,
         offer(allowed, Game_action(g, allowed.actions[i]).action, acc,
               resolveAction(Game_action(g, allowed.actions[i]).action, NoArgs)))

GameResult(allowed, moves) ==
  [defined |-> TRUE, thrown |-> FALSE, step |-> allowed.step, prompt |-> allowed.prompt,
   moves |-> moves]
NoGameResult == [defined |-> FALSE, thrown |-> FALSE, step |-> "", prompt |-> "", moves |-> <<>>]
GameThrows == [defined |-> FALSE, thrown |-> TRUE, step |-> "", prompt |-> "", moves |-> <<>>]

\* the same without the return for a single possible action
withoutAction_noSkip(allowed, acc) ==
  IF Len(acc.possibleActions) = 0 THEN NoGameResult
  ELSE IF allowed.expand /\ Len(acc.resolvedSelections) # 0
       THEN GameResult(allowed, acc.resolvedSelections)
  ELSE GameResult(allowed, <<ChooseActionMove(allowed.prompt, allowed.actions)>>)

\* the returns of the branch without an action
withoutAction(allowed, acc) ==
  IF Len(acc.possibleActions) = 0 THEN NoGameResult
  ELSE IF allowed.skipIfOnlyOne /\ Len(acc.possibleActions) = 1
       THEN GameResult(allowed, acc.resolvedSelections)
  ELSE IF allowed.expand /\ Len(acc.resolvedSelections) # 0
       THEN GameResult(allowed, acc.resolvedSelections)
  ELSE GameResult(allowed, <<ChooseActionMove(allowed.prompt, allowed.actions)>>)

\* the branch with an action: const moves = this.action(action, player)?._getResolvedSelections(args || {})
withAction(allowed, moves) ==
  IF moves.defined THEN GameResult(allowed, moves.moves) ELSE NoGameResult

\* Game.getResolvedSelections once allowed = this.allowedActions(player)
resolveAllowed(g, allowed, name, a) ==
  IF Len(allowed.actions) = 0 THEN NoGameResult
  ELSE IF name = ""
       THEN withoutAction(allowed, forActions(g, allowed, 1,
              [possibleActions |-> <<>>, resolvedSelections |-> <<>>]))
  ELSE IF ~Game_action(g, name).found THEN GameThrows
  ELSE withAction(allowed, resolveAction(Game_action(g, name).action, a))

\* Game.getResolvedSelections(player, action, args)
getResolvedSelections(g, name, a) == resolveAllowed(g, allowedActions(g), name, a)

\* the game the call leaves: the actions the player is allowed are all
\* found, the action asked for is looked up when some action is allowed
afterResolve(g, allowed, name, player) ==
  IF Len(allowed.actions) = 0 \/ name = "" THEN g ELSE afterAction(g, name, player)

(***************************************************************************)
(* The wire form of an Argument (action/utils): a primitive is sent as it  *)
(* is, a player as the string $p[position], a board element as the string *)
(* of its branch (the index of each ancestor among its siblings, from the  *)
(* board down: 0/1/0), an array element by element.  A string is the       *)
(* sequence of its character codes.                                        *)
(***************************************************************************)
Player(position) == [t |-> "player", v |-> <<position>>]
Text(codes) == [t |-> "str", v |-> codes]
List(items) == [t |-> "list", v |-> items]
NoValue == [t |-> "undefined", v |-> <<>>]

\* the character of a one-digit number, and the test for such a character
Digit(n) == 48 + n
IsDigit(c) == c \in 48..57

\* the string $p[position]
PlayerHandle(position) == <<36, 112, 91, Digit(position), 93>>

\* element.parent and element.children: the board (element 0) holds the
\* spaces 3 and 4, a space the pieces that are in it
parentOf(board, id) == IF id \in {3, 4} THEN 0 ELSE board[id]
childrenOf(board, id) == IF id = 0 THEN <<El(3), El(4)>> ELSE PiecesIn(board, id, 1)

\* the index of x in a list that holds it
IndexIn(list, x) == CHOOSE i \in 1..Len(list) : list[i] = x

RECURSIVE branch(_, _)
\* element.branch(): 0 for the board, then the index among the siblings
branch(board, id) ==
  IF id = 0 THEN <<Digit(0)>>
  ELSE branch(board, parentOf(board, id))
       \o <<47, Digit(IndexIn(childrenOf(board, parentOf(board, id)), El(id)) - 1)>>

RECURSIVE descend(_, _, _)
\* the element the rest of a branch leads to from element id
descend(board, id, path) ==
  IF path = <<>> THEN El(id)
  ELSE IF /\ Len(path) >= 2 /\ path[1] = 47 /\ IsDigit(path[2])
          /\ path[2] - Digit(0) < Len(childrenOf(board, id))
       THEN descend(board, childrenOf(board, id)[path[2] - Digit(0) + 1].v[1],
                    SubSeq(path, 3, Len(path)))
  ELSE NoValue

\* board.atBranch(branch)
atBranch(board, path) ==
  IF path # <<>> /\ path[1] = Digit(0) THEN descend(board, 0, Tail(path)) ELSE NoValue

\* the string has the form $p[n]
IsPlayerHandle(codes) ==
  Len(codes) = 5 /\ IsDigit(codes[4]) /\ codes = PlayerHandle(codes[4] - Digit(0))

\* players.atPosition(position)
atPosition(position) == IF position \in 1..MaxPlayers THEN Player(position) ELSE NoValue

serializeSingleArg(board, arg) ==
  IF arg.t = "player" THEN Text(PlayerHandle(arg.v[1]))
  ELSE IF arg.t = "el" THEN Text(branch(board, arg.v[1]))
  ELSE arg

serializeArg(board, arg) ==
  IF arg.t = "arr"
  THEN List([i \in 1..Len(arg.v) |-> serializeSingleArg(board, El(arg.v[i]))])
  ELSE serializeSingleArg(board, arg)

deserializeSingleArg(board, wire) ==
  IF wire.t # "str" THEN wire
  ELSE IF IsPlayerHandle(wire.v) THEN atPosition(wire.v[4] - Digit(0))
  ELSE IF atBranch(board, wire.v) # NoValue THEN atBranch(board, wire.v)
  ELSE wire

deserializeArg(board, wire) ==
  IF wire.t = "list"
  THEN Arr([i \in 1..Len(wire.v) |-> deserializeSingleArg(board, wire.v[i]).v[1]])
  ELSE deserializeSingleArg(board, wire)

VARIABLES h, args, last, game, reply

vars == <<h, args, last, game, reply>>

NoCall == [op |-> "none", args |-> NoArgs, defined |-> TRUE, moves |-> <<>>,
           error |-> "", thrown |-> FALSE, pre |-> <<>>]

Names == {"n", "m", "r", "c", "amount", "piece", "into", "count", "t", "cards", "__confirm__"}

SelectionNames(heap) == {heap.selections[i].name : i \in 1..Len(heap.selections)}

NewHeap(a) ==
  [name |-> a.name, prompt |-> a.prompt, selections |-> a.selections,
   moves |-> a.moves, board |-> Board0, calls |-> <<>>]

Discarded == h.calls # <<>>

\* what flow.actionNeeded(player) reports: no action step, or a step
NoStep ==
  [defined |-> FALSE, step |-> "", prompt |-> "", skipIfOnlyOne |-> TRUE, expand |-> TRUE,
   actions |-> <<>>]
ActionStep(actions, skipIfOnlyOne, expand) ==
  [defined |-> TRUE, step |-> "turn", prompt |-> "Your move", skipIfOnlyOne |-> skipIfOnlyOne,
   expand |-> expand, actions |-> actions]

\* the Game just constructed (game.ts:59-73): no flow, no actions and no
\* players yet, no player context on the board
NoGame ==
  [godMode |-> FALSE, current |-> FALSE, step |-> NoStep, phase |-> "new", ctx |-> 0,
   players |-> 0, flowDefinition |-> 0, actions |-> 0]

\* the game once defined with the actions of Registry and started
StartedGame ==
  [NoGame EXCEPT !.phase = "started", !.players = MaxPlayers, !.flowDefinition = 1,
                 !.actions = 1]

NoReply ==
  [op |-> "none", action |-> "", args |-> NoArgs, defined |-> FALSE, thrown |-> FALSE,
   step |-> "", prompt |-> "", moves |-> <<>>, actions |-> <<>>, skipIfOnlyOne |-> TRUE,
   expand |-> TRUE, frames |-> <<>>]

Init ==
  /\ h \in {NewHeap(a) : a \in Catalogue}
  /\ args = NoArgs
  /\ last = NoCall
  /\ game = NoGame
  /\ reply = NoReply

\* the player sends any value under the name of a selection
Type(name, value) ==
  /\ ~Discarded
  /\ name \in SelectionNames(h)
  /\ args' = WithArg(args, name, value)
  /\ last' = NoCall
  /\ UNCHANGED <<h, game, reply>>

\* the value the UI submits for option o of a selection: one of its
\* options, or the fixed value of a button
Offered(sel) == IF sel.type = "button" THEN <<sel.value.c>> ELSE options(sel)

\* the value is submitted for the pending move
Submit(pending, sel, o) ==
  /\ o \in 1..Len(Offered(sel))
  /\ args' = WithArg(pending.args, sel.name, Offered(sel)[o])

\* the player picks a value the UI offers for a pending move
Choose(i, o) ==
  /\ ~Discarded
  /\ last.op = "resolve"
  /\ i \in 1..Len(last.moves)
  /\ Submit(last.moves[i], SelectionOf(h, last.moves[i]), o)
  /\ last' = NoCall
  /\ UNCHANGED <<h, game, reply>>

\* the move is abandoned: the partial args are dropped
Abandon ==
  /\ ~Discarded
  /\ args # NoArgs
  /\ args' = NoArgs
  /\ last' = NoCall
  /\ UNCHANGED <<h, game, reply>>

\* the call returned r: the heap it left and the record of the call
Returned(op, r) ==
  /\ h' = r.h
  /\ last' = [op |-> op, args |-> args, defined |-> r.defined, moves |-> r.moves,
              error |-> r.error, thrown |-> r.thrown, pre |-> <<h>>]
  /\ UNCHANGED <<args, game, reply>>

\* the result of _nextSelection as a call record
AsCall(r) ==
  [defined |-> r.found, error |-> "", thrown |-> FALSE, h |-> r.h,
   moves |-> IF r.found THEN <<PendingMove(h, args, r.ref, r.selection)>> ELSE <<>>]

\* the result of _getResolvedSelections as a call record
AsResult(r) == [defined |-> r.defined, error |-> "", thrown |-> FALSE, h |-> r.h, moves |-> r.moves]

\* the result of validate or _process as a call record
AsError(r, heap) == [defined |-> TRUE, error |-> r.error, thrown |-> r.thrown, h |-> heap, moves |-> <<>>]

\* the result of validate as a call record, with the selection validated
AsValidated(r, i) ==
  [defined |-> TRUE, error |-> r.error, thrown |-> r.thrown, h |-> h,
   moves |-> <<PendingMove(h, args, i, h.selections[i])>>]

\* the result of _process as a call record
AsProcessed(r) == AsError(r, r.h)

\* the result of resolve on selection i as a call record: resolve writes to
\* no object, so the heap is the one it started from
AsResolved(r, i) ==
  [defined |-> TRUE, error |-> "", thrown |-> FALSE, h |-> h,
   moves |-> <<PendingMove(h, args, i, r)>>]

NextSelection ==
  /\ ~Discarded
  /\ Returned("next", AsCall(_nextSelection(h, args)))

Validate(i) ==
  /\ ~Discarded
  /\ i \in 1..Len(h.selections)
  /\ h.selections[i].name \in DOMAIN args
  /\ Returned("validate",
       AsValidated(validate(h.selections[i], args[h.selections[i].name], args, h.board), i))

\* selection.resolve(args) on a selection of the action
ResolveSelection(i) ==
  /\ ~Discarded
  /\ i \in 1..Len(h.selections)
  /\ Returned("resolveSelection", AsResolved(resolve(h.selections[i], args, h.board), i))

\* the result of isForced on the resolved selection i as a call record: the
\* value, if one is returned, is the only argument of the move
AsForced(r, i, resolved) ==
  [defined |-> r.defined, error |-> "", thrown |-> FALSE, h |-> h,
   moves |-> <<PendingMove(h, IF r.defined THEN WithArg(NoArgs, resolved.name, r.value)
                              ELSE NoArgs, i, resolved)>>]

\* selection.resolve(args).isForced() on a selection of the action
ForceSelection(i) ==
  /\ ~Discarded
  /\ i \in 1..Len(h.selections)
  /\ Returned("isForced",
       AsForced(isForced(resolve(h.selections[i], args, h.board)), i,
                resolve(h.selections[i], args, h.board)))

Resolve ==
  /\ ~Discarded
  /\ Returned("resolve", AsResult(_getResolvedSelections(h, args)))

Process ==
  /\ ~Discarded
  /\ Returned("process", AsProcessed(_process(h, args)))

Next ==
  \/ \E name \in Names, value \in Typed : Type(name, value)
  \/ \E i \in 1..4, o \in 1..4 : Choose(i, o)
  \/ Abandon
  \/ NextSelection
  \/ \E i \in 1..3 : Validate(i)
  \/ \E i \in 1..3 : ResolveSelection(i)
  \/ \E i \in 1..3 : ForceSelection(i)
  \/ Resolve
  \/ Process

Spec == Init /\ [][Next]_vars

(***************************************************************************)
(* The game as its callers see it: the flow enters and leaves action       *)
(* steps, the turn and god mode change, and the UI asks what the player is *)
(* allowed and what a move resolves to.                                    *)
(***************************************************************************)
RECURSIVE ActionLists(_)
\* the lists of n different registered actions
ActionLists(n) ==
  IF n = 0 THEN {<<>>}
  ELSE UNION {{Append(l, name) : name \in DOMAIN Registry \ {l[i] : i \in 1..Len(l)}} :
                l \in ActionLists(n - 1)}

\* the args the UI sends along with an action
GameArgs == {NoArgs, WithArg(NoArgs, "n", Num(1))}

GameInit ==
  /\ h = NewHeap(Pass)
  /\ args = NoArgs
  /\ last = NoCall
  /\ game = StartedGame
  /\ reply = NoReply

\* the flow reaches an action step
EnterStep(actions, skipIfOnlyOne, expand) ==
  /\ ~game.step.defined
  /\ game' = [game EXCEPT !.step = ActionStep(actions, skipIfOnlyOne, expand)]
  /\ reply' = NoReply
  /\ UNCHANGED <<h, args, last>>

\* the flow is at no action step
LeaveStep ==
  /\ game.step.defined
  /\ game' = [game EXCEPT !.step = NoStep]
  /\ reply' = NoReply
  /\ UNCHANGED <<h, args, last>>

\* the player becomes, or stops being, a current player
SetCurrent ==
  /\ game' = [game EXCEPT !.current = ~@]
  /\ reply' = NoReply
  /\ UNCHANGED <<h, args, last>>

\* god mode is switched
SetGodMode ==
  /\ game' = [game EXCEPT !.godMode = ~@]
  /\ reply' = NoReply
  /\ UNCHANGED <<h, args, last>>

\* the record of a call that returned r and left the game g; one call is
\* recorded for each state the flow, the turn and god mode are in
Replied(op, name, a, r, g) ==
  /\ reply.op = "none"
  /\ reply' = [op |-> op, action |-> name, args |-> a, defined |-> r.defined,
               thrown |-> r.thrown, step |-> r.step, prompt |-> r.prompt, moves |-> r.moves,
               actions |-> r.actions, skipIfOnlyOne |-> r.skipIfOnlyOne, expand |-> r.expand,
               frames |-> <<>>]
  /\ game' = g
  /\ UNCHANGED <<h, args, last>>

\* the result of allowedActions as a call record
AsAllowed(r) ==
  [defined |-> TRUE, thrown |-> FALSE, step |-> r.step, prompt |-> r.prompt, moves |-> <<>>,
   actions |-> r.actions, skipIfOnlyOne |-> r.skipIfOnlyOne, expand |-> r.expand]

\* the result of getResolvedSelections as a call record
AsMoves(r) ==
  [defined |-> r.defined, thrown |-> r.thrown, step |-> r.step, prompt |-> r.prompt,
   moves |-> r.moves, actions |-> <<>>, skipIfOnlyOne |-> TRUE, expand |-> TRUE]

AllowedActions == Replied("allowed", "", NoArgs, AsAllowed(allowedActions(game)), game)

GetResolvedSelections(name, a) ==
  Replied("resolve", name, a, AsMoves(getResolvedSelections(game, name, a)),
          afterResolve(game, allowedActions(game), name, 1))

GameNext ==
  \/ \E n \in 1..MaxStepActions, skipIfOnlyOne \in BOOLEAN, expand \in BOOLEAN :
       \E actions \in ActionLists(n) : EnterStep(actions, skipIfOnlyOne, expand)
  \/ LeaveStep
  \/ SetCurrent
  \/ SetGodMode
  \/ AllowedActions
  \/ GetResolvedSelections("", NoArgs)
  \/ \E i \in 1..Len(ActionNames), a \in GameArgs : GetResolvedSelections(ActionNames[i], a)

GameSpec == GameInit /\ [][GameNext]_vars

(***************************************************************************)
(* The life of a Game object: it is defined, given players, started,       *)
(* played and finished, and code runs in the context of a player.          *)
(***************************************************************************)
RECURSIVE FrameLists(_)
\* the calls of inContextOfPlayer nested n deep
FrameLists(n) ==
  IF n = 0 THEN {<<>>}
  ELSE {<<Frame(p, t)>> \o l : p \in 1..MaxPlayers, t \in BOOLEAN, l \in FrameLists(n - 1)}

LifeInit ==
  /\ h = NewHeap(Pass)
  /\ args = NoArgs
  /\ last = NoCall
  /\ game = NoGame
  /\ reply = NoReply

\* players.addPlayer(attrs)
AddPlayer ==
  /\ game.players < MaxPlayers
  /\ game' = [game EXCEPT !.players = @ + 1]
  /\ reply' = NoReply
  /\ UNCHANGED <<h, args, last>>

\* the record of a call on the game that gave r
Called(op, name, frames, r) ==
  /\ game' = r.game
  /\ reply' = [NoReply EXCEPT !.op = op, !.action = name, !.frames = frames,
                              !.thrown = r.thrown, !.defined = ~r.thrown]
  /\ UNCHANGED <<h, args, last>>

DefineFlow(f) == Called("defineFlow", "", <<>>, defineFlow(game, f))

DefineActions(a) == Called("defineActions", "", <<>>, defineActions(game, a))

Start == Called("start", "", <<>>, start(game))

Finish == Called("finish", "", <<>>, finish(game))

Play == Called("play", "", <<>>, play(game))

CallGodModeActions == Called("godModeActions", "", <<>>, godModeActions(game))

\* game.action(name, player)
CallAction(name, player) ==
  Called("action", name, <<Frame(player, FALSE)>>,
         [game |-> afterAction(game, name, player), thrown |-> ~Game_action(game, name).found])

\* game.inContextOfPlayer(player, fn)
CallInContextOfPlayer(frames) ==
  Called("inContextOfPlayer", "", frames, inContextOfPlayer(game, frames))

\* game.contextualizeBoardToPlayer(player), as a flow step does for its player
Contextualize(player) ==
  Called("contextualizeBoardToPlayer", "", <<Frame(player, FALSE)>>,
         Done(contextualizeBoardToPlayer(game, player)))

LifeNext ==
  \/ AddPlayer
  \/ SetGodMode
  \/ \E f \in 1..2 : DefineFlow(f)
  \/ \E a \in 1..2 : DefineActions(a)
  \/ Start
  \/ Finish
  \/ Play
  \/ CallGodModeActions
  \/ \E i \in 1..Len(ActionNames), player \in 1..MaxPlayers : CallAction(ActionNames[i], player)
  \/ \E n \in 1..2 : \E frames \in FrameLists(n) : CallInContextOfPlayer(frames)
  \/ \E player \in 1..MaxPlayers : Contextualize(player)

LifeSpec == LifeInit /\ [][LifeNext]_vars

(***************************************************************************)
(* Moves over the wire (interface.ts:76-103): the UI sends the args of a   *)
(* move serialized and the interface deserializes them against the board   *)
(* as it is then; between the moves the game moves pieces on the board.    *)
(***************************************************************************)
\* the values the UI may hold for a selection of the move
Wired ==
  { Num(1), Bool(1), Oil, El(1), El(2), El(3), El(4), Player(1), Player(2),
    Arr(<<1, 2>>), Arr(<<2>>),
    Text(PlayerHandle(1)), Text(<<Digit(0), 47, Digit(0), 47, Digit(0)>>),
    Text(<<Digit(0), 47, Digit(1)>>), Text(<<Digit(0), 47>>) }

WireInit ==
  /\ h = NewHeap(Discard)
  /\ args = NoArgs
  /\ last = NoCall
  /\ game = NoGame
  /\ reply = NoReply

\* the UI sends value for a selection: the arg is what deserializeArg makes
\* of the serialized value; last records the value that was sent
Send(name, value) ==
  /\ ~Discarded
  /\ name \in SelectionNames(h)
  /\ args' = WithArg(args, name, deserializeArg(h.board, serializeArg(h.board, value)))
  /\ last' = [NoCall EXCEPT !.op = "send", !.args = WithArg(NoArgs, name, value)]
  /\ UNCHANGED <<h, game, reply>>

\* piece.putInto(space) by the game: the next move is made on that board
MovePiece(piece, space) ==
  /\ h.board[piece] # space
  /\ h' = [h EXCEPT !.board[piece] = space]
  /\ args' = NoArgs
  /\ last' = NoCall
  /\ UNCHANGED <<game, reply>>

WireNext ==
  \/ \E name \in Names, value \in Wired : Send(name, value)
  \/ \E piece \in {1, 2}, space \in {3, 4} : MovePiece(piece, space)

WireSpec == WireInit /\ [][WireNext]_vars

(***************************************************************************)
(* Flow interrupts (flow/enums.ts).  interruptSignal is a module-level     *)
(* list of {data, signal}; Do.repeat, Do.continue, Do.break and Do.subflow *)
(* write to it through interrupt().  A loop argument is kept only when it  *)
(* is a string.  The list is held in game.interruptSignal and the latest   *)
(* call in reply.                                                          *)
(***************************************************************************)
MaxQueued == 4

InterruptControl == {"__REPEAT__", "__CONTINUE__", "__BREAK__", "__SUBFLOW__"}

LoopNames == {[t |-> "undefined", v |-> ""], [t |-> "str", v |-> "round"],
              [t |-> "record", v |-> "turn"]}

FlowNames == {"setup", "auction", "scoring"}

interrupt_queuesAlways(queue, signal, data) ==
  IF signal = "__SUBFLOW__"
  THEN Append(queue, [data |-> data, signal |-> signal])
  ELSE <<[data |-> data, signal |-> signal]>>

interrupt(queue, signal, data) ==
  IF signal = "__SUBFLOW__"
  THEN IF \A k \in 1..Len(queue) : queue[k].signal = "__SUBFLOW__"
       THEN Append(queue, [data |-> data, signal |-> signal])
       ELSE queue
  ELSE <<[data |-> data, signal |-> signal]>>

Do(queue, signal, loop) ==
  IF signal = "__SUBFLOW__"
  THEN interrupt(queue, signal, [t |-> "subflow", v |-> loop])
  ELSE interrupt(queue, signal,
                 IF loop.t = "str" THEN loop ELSE [t |-> "undefined", v |-> ""])

SignalInit ==
  /\ h = NewHeap(Pass)
  /\ args = NoArgs
  /\ last = NoCall
  /\ game = [interruptSignal |-> <<>>]
  /\ reply = [op |-> "none", signal |-> "", loop |-> ""]

DoLoop(signal, loop) ==
  /\ game' = [game EXCEPT !.interruptSignal = Do(@, signal, loop)]
  /\ reply' = [op |-> "Do", signal |-> signal, loop |-> loop]
  /\ UNCHANGED <<h, args, last>>

DoSubflow(flow) ==
  /\ Len(game.interruptSignal) < MaxQueued
  /\ game' = [game EXCEPT !.interruptSignal = Do(@, "__SUBFLOW__", flow)]
  /\ reply' = [op |-> "Do", signal |-> "__SUBFLOW__", loop |-> flow]
  /\ UNCHANGED <<h, args, last>>

SignalNext ==
  \/ \E signal \in InterruptControl \ {"__SUBFLOW__"}, loop \in LoopNames :
       DoLoop(signal, loop)
  \/ \E flow \in FlowNames : DoSubflow(flow)

SignalSpec == SignalInit /\ [][SignalNext]_vars

(***************************************************************************)
(* PlayerCollection (game/player/collection.ts): an array of players with  *)
(* a currentPosition.  game.order lists the positions of the players in    *)
(* array order, which is the turn order and need not be the order of the   *)
(* positions; game.currentPosition is NoValue while nobody is current.  A  *)
(* number is a fraction n/d in lowest terms, so that a call can pass a     *)
(* number that is no integer.  A call gives the game it leaves, what it    *)
(* returned and whether it threw.                                          *)
(***************************************************************************)
MaxSeats == 3

Number(n, d) == [t |-> "num", n |-> n, d |-> d]

Returns(g, value) == [game |-> g, thrown |-> FALSE, value |-> value]
Fails(g) == [game |-> g, thrown |-> TRUE, value |-> NoValue]

\* typeof player !== 'number' ? player.position : player
positionOf(player) == IF player.t = "player" THEN Number(player.v[1], 1) ELSE player

\* this.findIndex(p => p.position === position), from 0, or -1
findIndex(g, position) ==
  LET found == {k \in 1..Len(g.order) : g.order[k] * position.d = position.n}
  IN  IF found = {} THEN -1 ELSE (CHOOSE k \in found : \A j \in found : k <= j) - 1

\* this[index], undefined past the end
playerAt(g, index) ==
  IF index + 1 \in 1..Len(g.order) THEN Player(g.order[index + 1]) ELSE NoValue

atPositionIn(g, position) == playerAt(g, findIndex(g, position))

current(g) ==
  IF g.currentPosition = NoValue THEN Fails(g)
  ELSE Returns(g, atPositionIn(g, g.currentPosition))

setCurrent(g, player) ==
  LET position == positionOf(player)
  IN  IF position.n = 0 \/ position.n > Len(g.order) * position.d \/ position.n < position.d
      THEN Fails(g)
      ELSE current([g EXCEPT !.currentPosition = position])

turnOrderOf(g, player) ==
  LET index == findIndex(g, positionOf(player))
  IN  IF index = -1 THEN Fails(g) ELSE Returns(g, index + 1)

after(g, player) ==
  LET order == turnOrderOf(g, player)
  IN  IF order.thrown THEN order
      ELSE Returns(g, playerAt(g, order.value % Len(g.order)))

\* players.next(): reading .position of an undefined player is a TypeError
playersNext(g) ==
  LET player == IF g.currentPosition = NoValue THEN Returns(g, playerAt(g, 0))
                ELSE after(g, g.currentPosition)
  IN  IF player.thrown \/ player.value = NoValue THEN Fails(g)
      ELSE current([g EXCEPT !.currentPosition = positionOf(player.value)])

(***************************************************************************)
(* ForLoop (flow/for-loop.ts) and EachPlayer (flow/each-player.ts).        *)
(* game.loop is the loop as constructed, game.position its {index, value}  *)
(* (meaningful once game.started, that is after the first reset()).  The   *)
(* callbacks of a ForLoop are named: initial is a value, next one of       *)
(* v => v + 1, v => v - 1, v => v, v => 0 and while one of v => v < 3,     *)
(* v => v > 0, v => v !== 0, v => true, each with the result JavaScript    *)
(* gives on undefined and NaN, or () => game.open, which reads a flag of   *)
(* the game that the block can change.  An EachPlayer loop carries         *)
(* startingPlayer, nextPlayer, turns and continueUntil, each NoValue, ""   *)
(* or 0 when not given.                                                    *)
(***************************************************************************)
MaxIndex == 4
MaxTurns == 2

NaN == [t |-> "nan", v |-> <<>>]

FlowControl == [ok |-> [t |-> "__OK__", v |-> <<>>], complete |-> [t |-> "__COMPLETE__", v |-> <<>>]]

Callback(fn, v) ==
  CASE fn = "inc" -> IF v.t = "num" THEN Num(v.v[1] + 1) ELSE NaN
    [] fn = "dec" -> IF v.t = "num" THEN Num(v.v[1] - 1) ELSE NaN
    [] fn = "same" -> v
    [] fn = "zero" -> Num(0)
    [] fn = "lt3" -> v.t = "num" /\ v.v[1] < 3
    [] fn = "positive" -> v.t = "num" /\ v.v[1] > 0
    [] fn = "not0" -> v # Num(0)
    [] fn = "always" -> TRUE
    [] fn = "isSecond" -> v = Player(2)

\* Flow.setPosition: this.position = position
superSetPosition(g, position) == [g EXCEPT !.position = position]

\* EachPlayer.setPosition; ForLoop has the one of Flow
setPosition(g, position) ==
  LET set == superSetPosition(g, position)
  IN  IF g.loop.type = "each-player" /\ set.position.value # NoValue
      THEN LET now == setCurrent(set, set.position.value)
           IN  IF now.thrown THEN Fails(now.game)
               ELSE Returns(contextualizeBoardToPlayer(now.game, set.position.value.v[1]),
                            NoValue)
      ELSE Returns(set, NoValue)

\* initial of EachPlayer: reading [0] of an undefined current() is a TypeError,
\* and [0] of a player is undefined
eachInitial(g) ==
  IF g.loop.startingPlayer # NoValue THEN Returns(g, g.loop.startingPlayer)
  ELSE LET now == current(g)
       IN  IF now.thrown \/ now.value = NoValue THEN Fails(g)
           ELSE Returns(g, playerAt(g, 0))

\* this.initial instanceof Function ? this.initial(...) : this.initial
initial(g) ==
  IF g.loop.type = "each-player" THEN eachInitial(g) ELSE Returns(g, g.loop.initial)

\* this.next(value)
nextValue(g, value) ==
  IF g.loop.type = "each-player"
  THEN IF g.loop.nextPlayer # "" THEN Returns(g, Callback(g.loop.nextPlayer, value))
       ELSE after(g, value)
  ELSE Returns(g, Callback(g.loop.next, value))

\* this.while(value)
whileHolds(g, value) ==
  IF g.loop.type = "each-player"
  THEN IF g.loop.continueUntil # "" THEN ~Callback(g.loop.continueUntil, value)
       ELSE g.position.index <
              Len(g.order) * (IF g.loop.turns = 0 THEN 1 ELSE g.loop.turns)
  ELSE IF g.loop.while = "open" THEN g.open
  ELSE Callback(g.loop.while, value)

exit(g) ==
  LET set == setPosition(g, [g.position EXCEPT !.index = -1])
  IN  IF set.thrown THEN set ELSE Returns(set.game, FlowControl.complete)

reset(g) ==
  LET first == initial(g)
  IN  IF first.thrown THEN first
      ELSE LET position == [index |-> 0, value |-> first.value]
               set == setPosition([g EXCEPT !.started = TRUE], position)
           IN  IF set.thrown THEN set
               ELSE IF ~whileHolds(set.game, position.value)
               THEN setPosition(set.game, [position EXCEPT !.index = -1])
               ELSE Returns(set.game, NoValue)

currentBlock(g) == IF g.position.index # -1 THEN "block" ELSE "undefined"

\* advance that moves on whatever the condition says
advance_unconditional(g) ==
  IF g.position.index = -1 THEN Returns(g, FlowControl.complete)
  ELSE LET following == IF g.position.value # NoValue THEN nextValue(g, g.position.value)
                        ELSE Returns(g, g.position.value)
       IN  IF following.thrown THEN following
           ELSE LET set == setPosition(g, [index |-> g.position.index + 1,
                                           value |-> following.value])
                IN  IF set.thrown THEN set ELSE Returns(set.game, FlowControl.ok)

advance(g) ==
  IF g.position.index = -1 THEN Returns(g, FlowControl.complete)
  ELSE LET following == IF g.position.value # NoValue THEN nextValue(g, g.position.value)
                        ELSE Returns(g, g.position.value)
       IN  IF following.thrown THEN following
           ELSE LET set == setPosition(g, [index |-> g.position.index + 1,
                                           value |-> following.value])
                IN  IF set.thrown THEN set
                    ELSE IF ~whileHolds(set.game, following.value) THEN exit(set.game)
                    ELSE Returns(set.game, FlowControl.ok)

repeat(g) ==
  LET set == setPosition(g, g.position)
  IN  IF set.thrown THEN set
      ELSE IF ~whileHolds(set.game, set.game.position.value) THEN exit(set.game)
      ELSE Returns(set.game, FlowControl.ok)

\* a game with its players in the given order and a loop not yet reset
LoopGame(order, loop) ==
  [order |-> order, currentPosition |-> NoValue, ctx |-> 0, open |-> TRUE, loop |-> loop,
   started |-> FALSE, position |-> [index |-> -1, value |-> NoValue]]

NoRun == [op |-> "none", thrown |-> FALSE, returned |-> NoValue]

\* the record of a call on the loop or the players that gave r
Ran(op, r) ==
  /\ game' = r.game
  /\ reply' = [op |-> op, thrown |-> r.thrown, returned |-> r.value]
  /\ UNCHANGED <<h, args, last>>

ForLoops ==
  {[type |-> "loop", initial |-> i, next |-> n, while |-> w] :
     i \in {NoValue, Num(0), Num(2)}, n \in {"inc", "dec", "same", "zero"},
     w \in {"lt3", "positive", "not0", "always", "open"}}

LoopInit ==
  /\ h = NewHeap(Pass)
  /\ args = NoArgs
  /\ last = NoCall
  /\ game \in {LoopGame(<<>>, loop) : loop \in ForLoops}
  /\ reply = NoRun

\* the flow enters the loop, for the first time or after it completed
Reset ==
  /\ ~game.started \/ game.position.index = -1
  /\ \E r \in {reset(game)} : Ran("reset", r)

Advance ==
  /\ game.started
  /\ game.position.index <
       (IF game.loop.type = "each-player" THEN MaxSeats * MaxTurns ELSE MaxIndex)
  /\ \E r \in {advance(game)} : Ran("advance", r)

Repeat ==
  /\ game.started
  /\ \E r \in {repeat(game)} : Ran("repeat", r)

\* the block of the current iteration runs and sets the flag of the game
Block(open) ==
  /\ game.started
  /\ currentBlock(game) = "block"
  /\ game' = [game EXCEPT !.open = open]
  /\ reply' = [NoRun EXCEPT !.op = "block"]
  /\ UNCHANGED <<h, args, last>>

LoopNext ==
  \/ Reset
  \/ Advance
  \/ Repeat
  \/ \E open \in BOOLEAN : Block(open)

LoopSpec == LoopInit /\ [][LoopNext]_vars

\* the flow goes on: a loop that can advance does
LoopLive == LoopSpec /\ WF_vars(Advance)

RECURSIVE Orders(_)
\* the orders in which the players of the given positions can stand
Orders(positions) ==
  IF positions = {} THEN {<<>>}
  ELSE UNION {{<<p>> \o rest : rest \in Orders(positions \ {p})} : p \in positions}

Seats == UNION {Orders(1..n) : n \in 1..MaxSeats}

EachPlayers(order) ==
  {[type |-> "each-player", startingPlayer |-> s, nextPlayer |-> n, turns |-> t,
    continueUntil |-> u] :
     s \in {NoValue} \cup {Player(order[k]) : k \in 1..Len(order)}, n \in {"", "same"},
     t \in 0..MaxTurns, u \in {"", "isSecond"}}

\* a game whose flow has an EachPlayer loop, with any player or nobody current
EachInit ==
  /\ h = NewHeap(Pass)
  /\ args = NoArgs
  /\ last = NoCall
  /\ \E order \in Seats, now \in 0..MaxSeats :
       /\ now <= Len(order)
       /\ \E loop \in EachPlayers(order) :
            game = [LoopGame(order, loop) EXCEPT
                      !.currentPosition = IF now = 0 THEN NoValue ELSE Number(now, 1)]
  /\ reply = NoRun

EachNext ==
  \/ Reset
  \/ Advance
  \/ Repeat

EachSpec == EachInit /\ [][EachNext]_vars

(***************************************************************************)
(* Calls of players.next() and players.setCurrent() by the game.  reply    *)
(* keeps, beside the latest call, the players returned by the next() calls *)
(* made in a row (seen, at most one round of them) and the position that   *)
(* was current before the first of them (from).                            *)
(***************************************************************************)
NoTurn == [op |-> "none", thrown |-> FALSE, returned |-> NoValue, from |-> NoValue, seen |-> <<>>]

SeatInit ==
  /\ h = NewHeap(Pass)
  /\ args = NoArgs
  /\ last = NoCall
  /\ game \in {LoopGame(order, NoValue) : order \in Seats}
  /\ reply = NoTurn

\* what setCurrent is called with: a player of the game, or a number
Positions(g) ==
  {Player(g.order[k]) : k \in 1..Len(g.order)}
    \cup {Number(k, 1) : k \in 0..(MaxSeats + 1)} \cup {Number(3, 2)}

TakeSeat(player) ==
  /\ \E r \in {setCurrent(game, player)} :
       /\ game' = r.game
       /\ reply' = [NoTurn EXCEPT !.op = "setCurrent", !.thrown = r.thrown,
                                  !.returned = r.value]
  /\ UNCHANGED <<h, args, last>>

PassTurn ==
  /\ \E r \in {playersNext(game)} :
       /\ game' = r.game
       /\ LET row == reply.op = "next" /\ ~reply.thrown /\ Len(reply.seen) < Len(game.order)
          IN  reply' = [op |-> "next", thrown |-> r.thrown, returned |-> r.value,
                        from |-> IF row THEN reply.from ELSE game.currentPosition,
                        seen |-> IF r.thrown THEN <<>>
                                 ELSE (IF row THEN reply.seen ELSE <<>>) \o <<r.value>>]
  /\ UNCHANGED <<h, args, last>>

SeatNext ==
  \/ \E player \in Positions(game) : TakeSeat(player)
  \/ PassTurn

SeatSpec == SeatInit /\ [][SeatNext]_vars

(***************************************************************************)
(* Properties.  Pre is the heap the latest call started from.              *)
(***************************************************************************)
Pre == last.pre[1]

\* some supplied argument fails the validate check of its Selection
FailsValidation(heap, a) ==
  \E i \in 1..Len(heap.selections) :
    /\ heap.selections[i].name \in DOMAIN a
    /\ LET r == validate(heap.selections[i], a[heap.selections[i].name], a, heap.board)
       IN ~r.thrown /\ r.error # ""

\* every supplied argument passes the validate check of its Selection
AllValid(heap, a) ==
  \A i \in 1..Len(heap.selections) :
    heap.selections[i].name \in DOMAIN a =>
      validate(heap.selections[i], a[heap.selections[i].name], a, heap.board) = Ok

\* every selection is skipped or has a value in the args
Complete(heap, a) == ~_nextSelection(heap, a).found

\* the behaviour would throw when called with the args
WouldThrow(heap, i, a) == invoke(heap, heap.moves[i], a).threw # ""

\* the log entries of behaviours 1..k called with the args
Entries(heap, a, k) == [i \in 1..k |-> [id |-> heap.moves[i].id, args |-> a]]

\* C1: a _process call whose args hold a value that fails its Selection's
\* validate check returns a non-empty error string and invokes no behaviour,
\* also when the args hold a value for every selection.
C1_InvalidArgRejected ==
  (last.op = "process" /\ ~last.thrown /\ FailsValidation(Pre, last.args))
    => (last.error # "" /\ h.calls = Pre.calls)

C3_BehavioursOnlyWhenResolved ==
  (last.op = "process" /\ ~last.thrown) =>
    LET r == _getResolvedSelections(Pre, last.args) IN
    /\ h.calls # Pre.calls => (r.defined /\ r.moves = <<>>)
    /\ (~r.defined \/ r.moves # <<>>) =>
         /\ last.error # ""
         /\ h.calls = Pre.calls
         /\ h.board = Pre.board
    /\ (r.defined /\ r.moves # <<>> /\ AllValid(Pre, last.args)) => last.error = "incomplete action"

\* valid partial args answered with 'incomplete action'
C3_Witness ==
  /\ last.op = "process" /\ last.args # NoArgs /\ AllValid(Pre, last.args)
  /\ ~Complete(Pre, last.args)
  /\ last.error = "incomplete action" /\ h.calls = <<>>

\* C4: when a behaviour throws during _process the exception does not
\* propagate: _process returns its message, no later behaviour is invoked and
\* the effects of the behaviours that ran before are kept.
C4_ThrowCaughtNoRollback ==
  \A k \in 1..Len(h.moves) :
    (/\ last.op = "process" /\ h.calls # Pre.calls
     /\ WouldThrow(Pre, k, last.args)
     /\ \A i \in 1..(k - 1) : ~WouldThrow(Pre, i, last.args))
      => (/\ ~last.thrown
          /\ last.error = invoke(Pre, Pre.moves[k], last.args).threw
          /\ h.calls = Pre.calls \o Entries(Pre, last.args, k)
          /\ \A i \in 1..(k - 1) :
               Pre.moves[i].kind = "putInto" =>
                 h.board[last.args[Pre.moves[i].piece].v[1]] = last.args[Pre.moves[i].into].v[1])

\* the second behaviour threw after the first one had moved a piece
C4_Witness ==
  /\ last.op = "process" /\ last.error = "boom"
  /\ Len(h.moves) = 3 /\ h.moves[1].kind = "putInto"
  /\ Len(h.calls) = 2 /\ h.board # Pre.board

\* the positions in the options of sel of the values with which the args
\* a extended do not resolve to the infeasible sentinel
LegalValues(heap, a, sel) ==
  {k \in 1..Len(options(sel)) :
     _getResolvedSelections(heap, WithArg(a, sel.name, options(sel)[k])).defined}

\* sel has skipIfOnlyOne and exactly one legal value
OnlyOne(heap, a, sel) ==
  /\ sel.skipIfOnlyOne /\ isPossible(sel) /\ ~isUnbounded(sel)
  /\ Cardinality(LegalValues(heap, a, sel)) = 1

\* the single legal value of sel
TheOne(heap, a, sel) == options(sel)[CHOOSE k \in LegalValues(heap, a, sel) : TRUE]

\* with its single legal value nothing is left to select
Completes(heap, a, sel) ==
  _getResolvedSelections(heap, WithArg(a, sel.name, TheOne(heap, a, sel))).moves = <<>>

C6_OfferedValuesCompletable ==
  last.op = "resolve" =>
    \A i \in 1..Len(last.moves) :
      (/\ SelectionOf(h, last.moves[i]).type \in {"board", "choices"}
       /\ ~isMulti(SelectionOf(h, last.moves[i])))
        => \A k \in 1..Len(options(SelectionOf(h, last.moves[i]))) :
             _getResolvedSelections(h,
               WithArg(last.moves[i].args, SelectionOf(h, last.moves[i]).name,
                       options(SelectionOf(h, last.moves[i]))[k])).defined

RECURSIVE AllBounded(_, _)
\* no selection that remains after the args a, whatever is chosen, is unbounded
AllBounded(heap, a) ==
  LET next == _nextSelection(heap, a) IN
  next.found =>
    /\ ~isUnbounded(next.selection)
    /\ \A k \in 1..Len(options(next.selection)) :
         AllBounded(heap, WithArg(a, next.selection.name, options(next.selection)[k]))

RECURSIVE Completable(_, _)
\* the args a can be extended, one value of options() for each remaining
\* selection in declaration order, until no selection remains
Completable(heap, a) ==
  LET next == _nextSelection(heap, a) IN
  next.found =>
    \E k \in 1..Len(options(next.selection)) :
      Completable(heap, WithArg(a, next.selection.name, options(next.selection)[k]))

\* C7: when every remaining selection is bounded, _getResolvedSelections
\* returns the infeasible sentinel exactly when the args have no completion.
C7_InfeasibleIffNoCompletion ==
  (last.op = "resolve" /\ AllBounded(Pre, last.args))
    => (~last.defined <=> ~Completable(Pre, last.args))

\* one of three choices has no completion and the call still returns a move;
\* with that choice in the args it returns the sentinel
C7_Witness ==
  /\ last.op = "resolve" /\ h.name = "viable"
  /\ last.args = WithArg(NoArgs, "n", Num(8)) /\ ~last.defined

\* C8: _getResolvedSelections returns the empty list exactly when
\* _nextSelection finds no selection, and the infeasible sentinel, never the
\* empty list, when the next selection has no legal value.
C8_EmptyListIffNothingLeft ==
  last.op = "resolve" =>
    /\ (last.defined /\ last.moves = <<>>) <=> ~_nextSelection(Pre, last.args).found
    /\ (/\ _nextSelection(Pre, last.args).found
        /\ ~isPossible(_nextSelection(Pre, last.args).selection)) => ~last.defined

\* chooseFrom with an empty list of choices
C8_Witness ==
  /\ last.op = "resolve" /\ h.name = "nochoice" /\ last.args = NoArgs
  /\ ~last.defined

\* C9: after any calls of _getResolvedSelections and _nextSelection every
\* Selection of the action has the candidates, bounds and prompt it was
\* defined with.
C9_DefinitionsUnchanged ==
  \A a \in Catalogue :
    a.name = h.name =>
      \A i \in 1..Len(a.selections) :
        /\ h.selections[i].choices = a.selections[i].choices
        /\ h.selections[i].boardChoices = a.selections[i].boardChoices
        /\ h.selections[i].min = a.selections[i].min
        /\ h.selections[i].max = a.selections[i].max
        /\ h.selections[i].prompt = a.selections[i].prompt

\* C10: _getResolvedSelections, _nextSelection and validate invoke no
\* behaviour and leave the board as it is; as long as no _process has run the
\* behaviours the board is the initial one.
C10_ResolutionReadOnly ==
  /\ last.op \in {"next", "validate", "resolve"} =>
       (h.board = Pre.board /\ h.calls = Pre.calls)
  /\ h.calls = <<>> => h.board = Board0

\* a resolution that pruned an option and wrote to a definition, on a board
\* that holds pieces, after a value had been chosen
C10_Witness ==
  /\ last.op = "resolve" /\ last.args # NoArgs /\ last.moves # <<>>
  /\ h.selections # Pre.selections
  /\ h.board = Board0 /\ h.calls = <<>>

(***************************************************************************)
(* Properties of Game.allowedActions and Game.getResolvedSelections.       *)
(***************************************************************************)
\* the names allowedActions lists for the player in the game as it is
Allowed == {allowedActions(game).actions[i] : i \in 1..Len(allowedActions(game).actions)}

\* the pending moves of the action for empty args, undefined if infeasible
ForEmptyArgs(name) == resolveAction(Game_action(game, name).action, NoArgs)

\* the allowed actions whose resolution with empty args is not infeasible
FeasibleAllowed == {name \in Allowed : ForEmptyArgs(name).defined}

\* the name is among the choices of a choose-an-action selection
ChoiceOf(name, m) ==
  /\ m.selection.name = "__action__" /\ m.selection.type = "choices"
  /\ SeqIncludes(m.selection.choices.c, NameValue(name))

\* the actions constructed with a condition that is false or returns false
ConditionFalse == {"never", "neverfn"}

\* C11: getResolvedSelections(player) without an action offers no allowed
\* action whose resolution with empty args is infeasible: such an action is
\* neither the action of a returned pending move nor a choice of the
\* '__action__' selection.
C11_InfeasibleActionNotOffered ==
  (reply.op = "resolve" /\ reply.action = "") =>
    \A name \in Allowed \ FeasibleAllowed :
      \A i \in 1..Len(reply.moves) :
        reply.moves[i].action # name /\ ~ChoiceOf(name, reply.moves[i])

\* C12: an action whose condition is the constant false, or a function that
\* returns false, is never among allowedActions(player).actions and is never
\* resolved or offered by getResolvedSelections(player).
C12_ConditionFalseNotAllowed ==
  /\ reply.op = "allowed" =>
       \A i \in 1..Len(reply.actions) : reply.actions[i] \notin ConditionFalse
  /\ (reply.op = "resolve" /\ reply.action = "") =>
       \A name \in ConditionFalse, i \in 1..Len(reply.moves) :
         reply.moves[i].action # name /\ ~ChoiceOf(name, reply.moves[i])

\* C13: getResolvedSelections(player, action, args) returns undefined for
\* every action name that allowedActions(player) does not list.
C13_OnlyAllowedActionResolved ==
  (reply.op = "resolve" /\ reply.action # "" /\ reply.action \notin Allowed)
    => (~reply.defined /\ ~reply.thrown)

\* exactly one allowed action is feasible and the step has skipIfOnlyOne
OnlyOneAction ==
  /\ reply.op = "resolve" /\ reply.action = ""
  /\ allowedActions(game).skipIfOnlyOne
  /\ Cardinality(FeasibleAllowed) = 1

\* that action
TheAction == CHOOSE name \in FeasibleAllowed : TRUE

\* C14 as stated: with exactly one feasible allowed action and skipIfOnlyOne
\* the returned moves are that action's pending moves for empty args and
\* none of them is an '__action__' move.
C14_OnlyActionSurfaced ==
  OnlyOneAction =>
    /\ reply.defined
    /\ reply.moves = ForEmptyArgs(TheAction).moves
    /\ \A i \in 1..Len(reply.moves) : reply.moves[i].selection.name # "__action__"

\* C14 amended: the same, unless the step also has expand and the action
\* has no selection to make; then the one returned move is the '__action__'
\* button move that names the action.
C14_OnlyActionSurfacedOrNamed ==
  OnlyOneAction =>
    /\ reply.defined
    /\ IF allowedActions(game).expand /\ ForEmptyArgs(TheAction).moves = <<>>
       THEN /\ Len(reply.moves) = 1
            /\ reply.moves[1].action = TheAction
            /\ reply.moves[1].selection.name = "__action__"
            /\ reply.moves[1].selection.type = "button"
            /\ reply.moves[1].selection.value.c = NameValue(TheAction)
       ELSE /\ reply.moves = ForEmptyArgs(TheAction).moves
            /\ \A i \in 1..Len(reply.moves) : reply.moves[i].selection.name # "__action__"

\* of two allowed actions only 'counters' is feasible: its first selection
\* is returned although the step does not expand
C14_Witness ==
  /\ OnlyOneAction /\ Cardinality(Allowed) = 2 /\ TheAction = "counters"
  /\ ~allowedActions(game).expand
  /\ Len(reply.moves) = 1 /\ reply.moves[1].selection.name = "n"

(***************************************************************************)
(* Further properties of Action and Selection.                             *)
(***************************************************************************)
\* C15: when the next selection is possible and unbounded,
\* _getResolvedSelections returns exactly one pending move, made of the
\* action, the args of the call and that selection, whatever the later
\* selections are.
C15_UnboundedReturnedAlone ==
  (/\ last.op = "resolve"
   /\ _nextSelection(Pre, last.args).found
   /\ isPossible(_nextSelection(Pre, last.args).selection)
   /\ isUnbounded(_nextSelection(Pre, last.args).selection))
    => /\ last.defined
       /\ Len(last.moves) = 1
       /\ last.moves[1].action = h.name
       /\ last.moves[1].args = last.args
       /\ SelectionOf(h, last.moves[1]) = _nextSelection(Pre, last.args).selection

\* a number without max is returned although the number after it has no
\* legal value
C15_Witness ==
  /\ last.op = "resolve" /\ h.name \in {"unbounded", "wide"} /\ last.args = NoArgs
  /\ Len(last.moves) = 1 /\ SelectionOf(h, last.moves[1]).name = "n"
  /\ ~isPossible(resolve(h.selections[2], WithArg(NoArgs, "n", Num(1)), h.board))

\* the pending moves the latest call returned, each with its selection
LastMoves == Snapshot([defined |-> last.defined, moves |-> last.moves, h |-> h]).moves

\* the pending moves for the args a extended with option k of sel
SubResult(heap, a, sel, k) ==
  Snapshot(_getResolvedSelections(heap, WithArg(a, sel.name, options(sel)[k])))

RECURSIVE SubResults(_, _, _, _)
\* the sub-results of the surviving options k.. of sel, in option order
SubResults(heap, a, sel, k) ==
  IF k > Len(options(sel)) THEN <<>>
  ELSE (IF SubResult(heap, a, sel, k).defined THEN SubResult(heap, a, sel, k).moves ELSE <<>>)
       \o SubResults(heap, a, sel, k + 1)

\* sel is a bounded selection that expands, other than a board selection,
\* and each of its surviving options, of which there is one, leads to a
\* further step
Expands(heap, a, sel) ==
  /\ sel.expand /\ sel.type # "board" /\ isPossible(sel) /\ ~isUnbounded(sel)
  /\ \E k \in 1..Len(options(sel)) : SubResult(heap, a, sel, k).defined
  /\ \A k \in 1..Len(options(sel)) :
       SubResult(heap, a, sel, k).defined => SubResult(heap, a, sel, k).moves # <<>>

\* C16: when the next selection expands so, _getResolvedSelections returns
\* the sub-results of its surviving options one after the other in option
\* order, each pending move with its option in the args, and no pending move
\* of the expanded selection; for the choices oil and garbage followed by a
\* number these are two pending moves of type number.
C16_ExpandReturnsSubResults ==
  /\ (/\ last.op = "resolve"
      /\ _nextSelection(Pre, last.args).found
      /\ Expands(Pre, last.args, _nextSelection(Pre, last.args).selection))
       => /\ last.defined
          /\ LastMoves = SubResults(Pre, last.args, _nextSelection(Pre, last.args).selection, 1)
          /\ \A i \in 1..Len(last.moves) :
               /\ LastMoves[i].selection.name # _nextSelection(Pre, last.args).selection.name
               /\ _nextSelection(Pre, last.args).selection.name \in DOMAIN LastMoves[i].args
               /\ SeqIncludes(options(_nextSelection(Pre, last.args).selection),
                    LastMoves[i].args[_nextSelection(Pre, last.args).selection.name])
  /\ (last.op = "resolve" /\ h.name = "expanded" /\ last.args = NoArgs)
       => /\ Len(last.moves) = 2
          /\ LastMoves[1].selection.type = "number" /\ LastMoves[1].args = WithArg(NoArgs, "r", Oil)
          /\ LastMoves[2].selection.type = "number" /\ LastMoves[2].args = WithArg(NoArgs, "r", Garbage)

\* the choice of a resource expanded into the number to pick for each
C16_Witness ==
  /\ last.op = "resolve" /\ h.name = "expanded" /\ last.args = NoArgs
  /\ Len(last.moves) = 2
  /\ options(LastMoves[1].selection) = <<Num(1), Num(2), Num(3)>>
  /\ options(LastMoves[2].selection) = <<Num(1)>>

\* selection i is neither skipped by its skipIf nor given a value by the args
Awaited(heap, a, i) ==
  /\ resolve(heap.selections[i], a, heap.board).skipIf # Const(TRUE)
  /\ heap.selections[i].name \notin DOMAIN a

\* the first such selection in declaration order
FirstAwaited(heap, a) ==
  CHOOSE i \in 1..Len(heap.selections) :
    Awaited(heap, a, i) /\ \A j \in 1..(i - 1) : ~Awaited(heap, a, j)

\* a selection without its prompt
Unprompted(sel) == [sel EXCEPT !.prompt = None("")]

\* C17: _nextSelection returns the first selection in declaration order whose
\* skipIf is not true and whose name is no key of the args, its computed
\* fields resolved against these args, and nothing when there is none; for
\* the numbers n in 0..3 and m in n..2n it returns [0,3] without args and
\* [1,2] for n = 1.
C17_NextSelectionIsFirstAwaited ==
  /\ last.op = "next" =>
       /\ last.defined <=> \E i \in 1..Len(Pre.selections) : Awaited(Pre, last.args, i)
       /\ last.defined =>
            /\ Len(last.moves) = 1
            /\ Unprompted(SelectionOf(h, last.moves[1]))
                 = Unprompted(resolve(Pre.selections[FirstAwaited(Pre, last.args)],
                                      last.args, Pre.board))
            /\ SelectionOf(h, last.moves[1]).skipIf # Const(TRUE)
            /\ ~IsFunction(SelectionOf(h, last.moves[1]).min)
            /\ ~IsFunction(SelectionOf(h, last.moves[1]).max)
            /\ ~IsFunction(SelectionOf(h, last.moves[1]).choices)
            /\ ~IsFunction(SelectionOf(h, last.moves[1]).boardChoices)
  /\ (last.op = "next" /\ h.name = "counters" /\ last.args = NoArgs) =>
       /\ last.defined /\ SelectionOf(h, last.moves[1]).name = "n"
       /\ SelectionOf(h, last.moves[1]).min.c = 0 /\ SelectionOf(h, last.moves[1]).max.c = 3
  /\ (last.op = "next" /\ h.name = "counters" /\ last.args = WithArg(NoArgs, "n", Num(1))) =>
       /\ last.defined /\ SelectionOf(h, last.moves[1]).name = "m"
       /\ SelectionOf(h, last.moves[1]).min.c = 1 /\ SelectionOf(h, last.moves[1]).max.c = 2

\* the grade is skipped for oil: no selection is left although 'n' has no
\* value
C17_Witness ==
  /\ last.op = "next" /\ h.name = "graded" /\ last.args = WithArg(NoArgs, "r", Oil)
  /\ ~last.defined

\* a number selection whose min, 1 if it has none, is greater than its max
Inverted(sel) == sel.type = "number" /\ IsDefined(sel.max) /\ MinOr1(sel) > sel.max.c

\* selection i of the action, resolved against the args
Resolved(heap, a, i) == resolve(heap.selections[i], a, heap.board)

C19_NothingThrown ==
  last.op \in {"validate", "process"} => ~last.thrown

\* the selection the latest validate call was made on, as defined and as
\* resolved against the args, and the value it was given
Validated == Pre.selections[last.moves[1].ref]
ValidatedResolved == resolve(Validated, last.args, Pre.board)
ValidatedArg == last.args[Validated.name]

\* the value is a list with an element outside the allowed ones
HasForeign(sel, arg) ==
  \E k \in 1..Len(arg.v) : ~SeqIncludes(sel.boardChoices.c, El(arg.v[k]))

\* the length of the list is outside the bounds the selection has
CountOutside(sel, arg) ==
  \/ IsDefined(sel.min) /\ Len(arg.v) < sel.min.c
  \/ IsDefined(sel.max) /\ Len(arg.v) > sel.max.c

\* the number is outside the bounds the selection has
NumberOutside(sel, arg) ==
  \/ IsDefined(sel.min) /\ arg.v[1] < sel.min.c
  \/ IsDefined(sel.max) /\ arg.v[1] > sel.max.c

\* the error conditions of a value other than text
Rejected(def, sel, arg) ==
  \/ sel.type = "choices" /\ IsDefined(sel.choices) /\ ~SeqIncludes(sel.choices.c, arg)
  \/ /\ sel.type = "board" /\ IsDefined(sel.boardChoices) /\ isMulti(def)
     /\ arg.t = "arr" /\ (HasForeign(sel, arg) \/ CountOutside(sel, arg))
  \/ /\ sel.type = "board" /\ IsDefined(sel.boardChoices) /\ ~isMulti(def)
     /\ ~SeqIncludes(sel.boardChoices.c, arg)
  \/ sel.type = "number" /\ (arg.t # "num" \/ NumberOutside(sel, arg))

\* the text fails the regexp of the selection
FailsRegexp(sel, arg) ==
  sel.type = "text" /\ IsDefined(sel.regexp) /\ ~SeqIncludes(sel.regexp.c, arg)

\* the value given to a text selection is no string
NotText(sel, arg) == sel.type = "text" /\ arg.t # "str"

ValidatedBoundedNumber ==
  /\ last.op = "validate" /\ ~last.thrown
  /\ ValidatedResolved.type = "number"
  /\ ~SkipIfTrue(ValidatedResolved)
  /\ ~isUnbounded(ValidatedResolved)
  /\ ValidatedArg.t = "num"

\* C21: for a bounded number selection (min unset counting as 1) validate
\* accepts exactly the numbers that options() enumerates; in particular a
\* number below 1 is rejected when min is unset.
C21_ValidateAcceptsExactlyOptions ==
  ValidatedBoundedNumber =>
    (last.error = "" <=> SeqIncludes(options(ValidatedResolved), ValidatedArg))

\* C22: once inContextOfPlayer or Game.action is over, the player context
\* of the board is what it was before the call, whether fn returned or
\* threw, and whatever calls were nested in it.
C22_ContextRestored ==
  [][reply'.op \in {"inContextOfPlayer", "action"} => game'.ctx = game.ctx]_vars

\* the selection the latest resolve call was made on, what the call
\* returned, and args a later call may come with
ResolvedIndex == last.moves[1].ref
ResolvedNow == last.moves[1].selection
LaterArgs ==
  {NoArgs, last.args} \cup {WithArg(last.args, n, v) : n \in SelectionNames(h), v \in Typed}

SentName == CHOOSE n \in DOMAIN last.args : TRUE
Sent == last.args[SentName]

\* C24: an Argument sent over the wire arrives as the same value:
\* deserialize(serialize(x)) = x for a primitive, a board element, a player
\* and an array of board elements, on the board as it is.
C24_RoundTrips ==
  last.op = "send" => args[SentName] = Sent

\* the next selection of the latest resolve call, at the start of the call
NextOfLast == _nextSelection(Pre, last.args).selection

\* the latest call resolved args whose next selection is a possible board
\* selection of several elements with a maximum
ResolvedMulti ==
  /\ last.op = "resolve"
  /\ _nextSelection(Pre, last.args).found
  /\ NextOfLast.type = "board" /\ isMulti(NextOfLast) /\ IsDefined(NextOfLast.max)
  /\ isPossible(NextOfLast)

\* the sets of candidates of a size from min (1 if unset) to max
CombinationsOf(sel) ==
  {S \in SUBSET {Candidates(sel)[k].v[1] : k \in 1..Len(Candidates(sel))} :
     Cardinality(S) \in MinOr1(sel)..sel.max.c}

\* the elements of an option
ElementsOf(option) == {option.v[k] : k \in 1..Len(option.v)}

\* C25: the options of a multi-select board selection with a maximum are
\* the combinations of its candidates of every size from min (default 1) to
\* max, each once: 25 for sizes 1..3 of 5 candidates; and
\* _getResolvedSelections tries every one of them: it finds the selection
\* feasible exactly when some combination leads on.
C25_EveryCombinationTried ==
  ResolvedMulti =>
    /\ \A k \in 1..Len(options(NextOfLast)) :
         /\ options(NextOfLast)[k].t = "arr"
         /\ Len(options(NextOfLast)[k].v) = Cardinality(ElementsOf(options(NextOfLast)[k]))
         /\ ElementsOf(options(NextOfLast)[k]) \in CombinationsOf(NextOfLast)
    /\ \A S \in CombinationsOf(NextOfLast) :
         Cardinality({k \in 1..Len(options(NextOfLast)) :
                        ElementsOf(options(NextOfLast)[k]) = S}) = 1
    /\ h.name = "draft" => Len(options(NextOfLast)) = 25
    /\ last.defined <=>
         \E k \in 1..Len(options(NextOfLast)) : SubResult(Pre, last.args, NextOfLast, k).defined

\* the draft: of the 25 combinations only the cards 7, 8 and 9 lead on
C25_Witness ==
  /\ ResolvedMulti /\ h.name = "draft" /\ last.args = NoArgs
  /\ last.defined
  /\ Len(options(NextOfLast)) = 25
  /\ \A k \in 1..25 :
       SubResult(Pre, last.args, NextOfLast, k).defined
         <=> options(NextOfLast)[k] = Arr(<<7, 8, 9>>)

\* the action has a confirm() step whose value is not in the args while
\* every selection before it has a value
ConfirmAwaited(heap, a) ==
  /\ "__confirm__" \notin DOMAIN a
  /\ \E i \in 1..Len(heap.selections) :
       /\ heap.selections[i].name = "__confirm__"
       /\ \A j \in 1..(i - 1) : heap.selections[j].name \in DOMAIN a

\* the latest call returned the pending move of the confirmation alone
ConfirmReturned ==
  /\ last.defined /\ Len(last.moves) = 1
  /\ last.moves[1].args = last.args
  /\ SelectionOf(h, last.moves[1]).name = "__confirm__"
  /\ SelectionOf(h, last.moves[1]).type = "button"
  /\ ~SelectionOf(h, last.moves[1]).skipIfOnlyOne

\* no behaviour has run since the latest call started
NothingRan == h.calls = <<>> /\ h.board = Pre.board

\* C26 as stated: while the value of a confirm() step is not in the args
\* and all earlier selections are filled, _getResolvedSelections returns the
\* pending move of the button, which is not skipped, and _process returns
\* 'incomplete action' without running any behaviour.
C26_ConfirmNeverBypassed ==
  /\ (last.op = "resolve" /\ ConfirmAwaited(Pre, last.args)) => ConfirmReturned
  /\ (last.op = "process" /\ ConfirmAwaited(Pre, last.args)) =>
       NothingRan /\ ~last.thrown /\ last.error = "incomplete action"

\* C26 amended: the same, except that _process returns 'incomplete action'
\* only when no argument fails its validation; otherwise it returns (or
\* throws) what the validation of an argument gave; no behaviour runs in
\* either case.
C26_ConfirmNeverBypassedOrInvalid ==
  /\ (last.op = "resolve" /\ ConfirmAwaited(Pre, last.args)) => ConfirmReturned
  /\ (last.op = "process" /\ ConfirmAwaited(Pre, last.args)) =>
       /\ NothingRan
       /\ AllValid(Pre, last.args) => (~last.thrown /\ last.error = "incomplete action")
       /\ ~AllValid(Pre, last.args) =>
            /\ last.error # ""
            /\ \E i \in 1..Len(Pre.selections) :
                 /\ Pre.selections[i].name \in DOMAIN last.args
                 /\ validate(Pre.selections[i], last.args[Pre.selections[i].name],
                              last.args, Pre.board)
                      = [error |-> last.error, thrown |-> last.thrown]

\* the cards are chosen and valid, the confirmation is missing: the move is
\* not processed
C26_Witness ==
  /\ last.op = "process" /\ h.name = "sealed"
  /\ DOMAIN last.args = {"cards"} /\ last.args["cards"] = Arr(<<1, 2>>)
  /\ last.error = "incomplete action" /\ h.calls = <<>>

\* The lifecycle of the game.

\* C27: defineFlow and defineActions throw and leave the definitions as
\* they were in any phase other than 'new'; start throws when the phase is
\* 'started' or there are no players; play and godModeActions throw unless
\* the phase is 'started'.
C27_LifecycleGuards ==
  [][/\ (reply'.op \in {"defineFlow", "defineActions"} /\ game.phase # "new") =>
          /\ reply'.thrown
          /\ game'.flowDefinition = game.flowDefinition
          /\ game'.actions = game.actions
     /\ (reply'.op = "start" /\ (game.phase = "started" \/ game.players = 0)) =>
          reply'.thrown
     /\ (reply'.op \in {"play", "godModeActions"} /\ game.phase # "started") =>
          reply'.thrown]_vars

\* defineFlow was refused in a finished game that has a flow and players
C27_Witness ==
  /\ reply.op = "defineFlow" /\ reply.thrown
  /\ game.phase = "finished" /\ game.flowDefinition = 1 /\ game.players > 0

\* Board selections and expansion.

\* the next selection of the latest resolve call is a possible, bounded
\* board selection with an option that leads on
BoardAwaited ==
  /\ last.op = "resolve"
  /\ _nextSelection(Pre, last.args).found
  /\ NextOfLast.type = "board" /\ isPossible(NextOfLast) /\ ~isUnbounded(NextOfLast)
  /\ \E k \in 1..Len(options(NextOfLast)) : SubResult(Pre, last.args, NextOfLast, k).defined

Surviving(heap, a, sel) ==
  {k \in 1..Len(options(sel)) : SubResult(heap, a, sel, k).defined}

\* the next selection of the latest resolve call is possible, bounded and
\* set to expand, and one of its surviving options completes the action
ExpandHeldBack ==
  /\ last.op = "resolve"
  /\ _nextSelection(Pre, last.args).found
  /\ NextOfLast.expand /\ isPossible(NextOfLast) /\ ~isUnbounded(NextOfLast)
  /\ \E k \in Surviving(Pre, last.args, NextOfLast) :
       SubResult(Pre, last.args, NextOfLast, k).moves = <<>>

\* C29: a selection set to expand of which a surviving option completes the
\* action at once is not expanded: the result is the one pending move of
\* that selection, unless skipIfOnlyOne is set and exactly one option
\* survives.
C29_NoExpandPastCompletion ==
  ExpandHeldBack =>
    \/ NextOfLast.skipIfOnlyOne /\ Cardinality(Surviving(Pre, last.args, NextOfLast)) = 1
    \/ /\ last.defined /\ Len(last.moves) = 1
       /\ LastMoves[1].args = last.args
       /\ LastMoves[1].selection.name = NextOfLast.name

\* the resource of 'assay': oil completes the action, garbage leads on to
\* the grade, and the resource is what is asked for
C29_Witness ==
  /\ ExpandHeldBack /\ h.name = "assay" /\ last.args = NoArgs
  /\ Cardinality(Surviving(Pre, last.args, NextOfLast)) = 2
  /\ SubResults(Pre, last.args, NextOfLast, 1) # <<>>
  /\ Len(last.moves) = 1 /\ LastMoves[1].selection.name = "r"

\* Unbounded selections.

\* the number of values of the inclusive range [min, max] of a number
\* selection with a max, min being 1 if unset
ValuesIn(sel) ==
  IF sel.max.c < MinOr1(sel) THEN 0 ELSE sel.max.c - MinOr1(sel) + 1

\* the latest call resolved args that leave a selection to make
ResolvedNext == last.op = "resolve" /\ _nextSelection(Pre, last.args).found

\* C30 as stated: a resolved number selection is unbounded exactly when it
\* has no max or its range [min, max], min being 1 if unset, holds more than
\* 100 values; text and button selections are unbounded; the options of an
\* unbounded selection are the empty list.
C30_UnboundedBeyond100Values ==
  ResolvedNext =>
    /\ NextOfLast.type = "number" =>
         (isUnbounded(NextOfLast) <=> (~IsDefined(NextOfLast.max) \/ ValuesIn(NextOfLast) > 100))
    /\ NextOfLast.type \in {"text", "button"} => isUnbounded(NextOfLast)
    /\ isUnbounded(NextOfLast) => options(NextOfLast) = <<>>

\* C30 amended: the same with more than 101 values, that is max - min
\* greater than 100, for a number selection with a max.
C30_UnboundedBeyond101Values ==
  ResolvedNext =>
    /\ NextOfLast.type = "number" =>
         (isUnbounded(NextOfLast) <=> (~IsDefined(NextOfLast.max) \/ ValuesIn(NextOfLast) > 101))
    /\ NextOfLast.type \in {"text", "button"} => isUnbounded(NextOfLast)
    /\ isUnbounded(NextOfLast) => options(NextOfLast) = <<>>
    /\ (NextOfLast.type = "number" /\ ~isUnbounded(NextOfLast)) =>
         Len(options(NextOfLast)) = ValuesIn(NextOfLast)

\* the 101 values of 1..101 are enumerated: none leads on, so the args
\* cannot be resolved, where the 102 values of 0..101 are not looked at
C30_Witness ==
  /\ ResolvedNext /\ h.name = "ample" /\ last.args = NoArgs
  /\ ValuesIn(NextOfLast) = 101 /\ Len(options(NextOfLast)) = 101
  /\ ~last.defined

(***************************************************************************)
(* Possible and forced selections, pending moves, termination.             *)
(***************************************************************************)
\* the cases of a selection without a legal value: no choice, a number
\* range with min above max, fewer candidates on the board than the minimum
Unfillable(sel) ==
  \/ sel.type = "choices" /\ IsDefined(sel.choices) /\ Len(sel.choices.c) = 0
  \/ sel.type = "number" /\ IsDefined(sel.max) /\ MinOr1(sel) > sel.max.c
  \/ sel.type = "board" /\ IsDefined(sel.boardChoices)
       /\ Len(sel.boardChoices.c) < MinOr1(sel)

\* a board selection of several elements whose min is above its max
BoardInverted(sel) ==
  sel.type = "board" /\ IsDefined(sel.boardChoices) /\ IsDefined(sel.max)
    /\ MinOr1(sel) > sel.max.c

\* C31 as stated: isPossible() is false exactly for an empty list of
\* choices, a number range with min above max, and a board selection with
\* fewer candidates than its minimum (1 if unset); a bounded selection that
\* is possible has options.
C31_ImpossibleIffNoValue ==
  ResolvedNext =>
    /\ ~isPossible(NextOfLast) <=> Unfillable(NextOfLast)
    /\ (isPossible(NextOfLast) /\ ~isUnbounded(NextOfLast)) => options(NextOfLast) # <<>>

\* C31 amended: the same with one more case, a board selection whose
\* minimum is above its max; and args whose next selection is not possible
\* are not resolved.
C31_ImpossibleIffNoValueOrInverted ==
  ResolvedNext =>
    /\ ~isPossible(NextOfLast) <=> (Unfillable(NextOfLast) \/ BoardInverted(NextOfLast))
    /\ (isPossible(NextOfLast) /\ ~isUnbounded(NextOfLast)) => options(NextOfLast) # <<>>
    /\ ~isPossible(NextOfLast) => (~last.defined /\ options(NextOfLast) = <<>>)

\* five cards to pick from, at least one and at most none: not resolved
C31_Witness ==
  /\ ResolvedNext /\ h.name = "spare" /\ last.args = NoArgs
  /\ Len(NextOfLast.boardChoices.c) = 5 /\ MinOr1(NextOfLast) = 1 /\ NextOfLast.max.c = 0
  /\ ~last.defined

\* the selection the latest isForced call was made on, resolved
ForcedOn == resolve(Pre.selections[last.moves[1].ref], last.args, Pre.board)

\* sel has exactly one legal value: the value of a button, the one option
\* of a bounded selection and, for a board selection of several elements,
\* all its candidates when their number is both its min and its max
SingleValued(sel) ==
  IF sel.type = "button" THEN IsDefined(sel.value)
  ELSE IF sel.type = "board" /\ isMulti(sel)
       THEN /\ IsDefined(sel.min) /\ IsDefined(sel.max)
            /\ Len(sel.boardChoices.c) = sel.min.c /\ sel.min.c = sel.max.c
  ELSE ~isUnbounded(sel) /\ Len(options(sel)) = 1

\* the one legal value of such a selection
SingleValue(sel) ==
  IF sel.type = "button" THEN sel.value.c
  ELSE IF sel.type = "board" /\ isMulti(sel) THEN AllCandidates(sel)
  ELSE options(sel)[1]

\* C32: isForced() returns a value exactly when skipIfOnlyOne is set and
\* the selection has one legal value, counted as options() and isPossible()
\* count (for a board selection of several elements: all candidates, when
\* their number is both min and max), and it returns that value.
C32_ForcedIffSingleValue ==
  last.op = "isForced" =>
    /\ last.defined <=> (ForcedOn.skipIfOnlyOne /\ SingleValued(ForcedOn))
    /\ last.defined => last.moves[1].args = WithArg(NoArgs, ForcedOn.name, SingleValue(ForcedOn))

\* the args b extend the args a: they keep every value of a
Extends(b, a) == DOMAIN a \subseteq DOMAIN b /\ \A k \in DOMAIN a : b[k] = a[k]

\* every value b adds to a is an option of the selection of its name,
\* resolved with b
AddsOptionsOnly(heap, b, a) ==
  \A k \in DOMAIN b \ DOMAIN a :
    \E j \in 1..Len(heap.selections) :
      /\ heap.selections[j].name = k
      /\ SeqIncludes(options(resolve(heap.selections[j], b, heap.board)), b[k])

\* the options of sel that lead on from the args a
Kept(heap, a, sel) ==
  SelectSeq(options(sel),
            LAMBDA o : Snapshot(_getResolvedSelections(heap, WithArg(a, sel.name, o))).defined)

\* sel with its candidates narrowed to the options that lead on, if it is
\* a board selection of one element
Narrowed(heap, a, sel) ==
  IF sel.type = "board" /\ ~isMulti(sel)
  THEN [sel EXCEPT !.boardChoices = Const(Kept(heap, a, sel))]
  ELSE sel

\* C33 as stated: every pending move _getResolvedSelections returns has the
\* name of the action, args that extend the args of the call with options
\* of the selections they name, and for selection the one _nextSelection
\* gives for the args of the move, whose name is no key of these args.
C33_MovesAreNextSelections ==
  (last.op = "resolve" /\ last.defined) =>
    \A i \in 1..Len(last.moves) :
      /\ LastMoves[i].action = h.name
      /\ Extends(LastMoves[i].args, last.args)
      /\ AddsOptionsOnly(Pre, LastMoves[i].args, last.args)
      /\ LastMoves[i].selection.name \notin DOMAIN LastMoves[i].args
      /\ _nextSelection(h, LastMoves[i].args).found
      /\ LastMoves[i].selection = _nextSelection(h, LastMoves[i].args).selection

\* C33 amended: the same, the selection of the move being the one
\* _nextSelection gives with, for a board selection of one element, its
\* candidates narrowed to those that lead on.
C33_MovesAreNarrowedNextSelections ==
  (last.op = "resolve" /\ last.defined) =>
    \A i \in 1..Len(last.moves) :
      /\ LastMoves[i].action = h.name
      /\ Extends(LastMoves[i].args, last.args)
      /\ AddsOptionsOnly(Pre, LastMoves[i].args, last.args)
      /\ LastMoves[i].selection.name \notin DOMAIN LastMoves[i].args
      /\ _nextSelection(h, LastMoves[i].args).found
      /\ LastMoves[i].selection
           = Narrowed(Pre, LastMoves[i].args, _nextSelection(h, LastMoves[i].args).selection)

\* of the two pieces of space 3 only piece 1 is offered by the move, where
\* _nextSelection offers both
C33_Witness ==
  /\ last.op = "resolve" /\ h.name = "cull" /\ last.args = NoArgs
  /\ Len(last.moves) = 1
  /\ LastMoves[1].selection.boardChoices.c = <<El(1)>>
  /\ _nextSelection(h, NoArgs).selection.boardChoices.c = <<El(1), El(2)>>

\* C34: a result of Game.getResolvedSelections(player) without an action
\* has at least one move: a player with a feasible action is shown
\* something to act on.
C34_ResultHasMoves ==
  (reply.op = "resolve" /\ reply.action = "" /\ reply.defined) => Len(reply.moves) > 0

\* the values of a list
Range(list) == {list[k] : k \in 1..Len(list)}

\* the greatest of a set of numbers, 0 if there is none
Greatest(S) == IF S = {} THEN 0 ELSE CHOOSE x \in S : \A y \in S : y <= x

RECURSIVE Depth(_, _, _)
\* the number of nested calls of _getResolvedSelections the call for the
\* args a makes, itself included, counted up to fuel: a call returns at
\* once when no selection is left or the next one is impossible or
\* unbounded, and else calls itself for every option of the next selection
Depth(heap, a, fuel) ==
  IF fuel = 0 THEN 0
  ELSE IF \/ ~_nextSelection(heap, a).found
          \/ ~isPossible(_nextSelection(heap, a).selection)
          \/ isUnbounded(_nextSelection(heap, a).selection)
       THEN 1
  ELSE 1 + Greatest({Depth(heap, withOption(a, _nextSelection(heap, a).selection, o), fuel - 1) :
                       o \in Range(options(_nextSelection(heap, a).selection))})

C36_PhaseOnlyForward ==
  [][/\ game.phase = "finished" => game'.phase = "finished"
     /\ game.phase = "started" => game'.phase # "new"]_vars

(***************************************************************************)
(* Flow: interrupts, loops, turns.                                         *)
(***************************************************************************)
IsLoopInterrupt(s) == s.signal \in InterruptControl \ {"__SUBFLOW__"}

OnlySubflows(queue) == \A k \in 1..Len(queue) : queue[k].signal = "__SUBFLOW__"

SignalShape ==
  \/ game.interruptSignal = <<>>
  \/ Len(game.interruptSignal) = 1 /\ IsLoopInterrupt(game.interruptSignal[1])
  \/ OnlySubflows(game.interruptSignal)

SignalStep ==
  IF reply'.signal # "__SUBFLOW__"
  THEN /\ Len(game'.interruptSignal) = 1
       /\ game'.interruptSignal[1].signal = reply'.signal
       /\ game'.interruptSignal[1].data =
            IF reply'.loop.t = "str" THEN reply'.loop ELSE [t |-> "undefined", v |-> ""]
  ELSE IF OnlySubflows(game.interruptSignal)
  THEN /\ Len(game'.interruptSignal) = Len(game.interruptSignal) + 1
       /\ SubSeq(game'.interruptSignal, 1, Len(game.interruptSignal)) = game.interruptSignal
       /\ game'.interruptSignal[Len(game'.interruptSignal)] =
            [data |-> [t |-> "subflow", v |-> reply'.loop], signal |-> "__SUBFLOW__"]
  ELSE game'.interruptSignal = game.interruptSignal

\* C37: after any sequence of Do.repeat / Do.continue / Do.break / Do.subflow
\* calls interruptSignal is empty, or exactly one loop interrupt, or a list of
\* subflow signals only; a loop interrupt replaces the whole list by itself,
\* a subflow is appended after the queued subflows, and a subflow requested
\* while a loop interrupt is pending leaves the list as it was.
C37_InterruptQueueShape == []SignalShape /\ [][SignalStep]_vars

\* Do.subflow was called while Do.break('round') was pending, and was dropped
C37_Witness ==
  /\ reply.signal = "__SUBFLOW__"
  /\ Len(game.interruptSignal) = 1
  /\ game.interruptSignal[1].signal = "__BREAK__"
  /\ game.interruptSignal[1].data.v = "round"

RECURSIVE Applied(_, _, _)
\* fn applied k times to v
Applied(fn, v, k) == IF k = 0 THEN v ELSE Callback(fn, Applied(fn, v, k - 1))

\* the value of iteration k when an undefined value is never passed to next
Carried(loop, k) == IF loop.initial = NoValue THEN NoValue ELSE Applied(loop.next, loop.initial, k)

\* the condition of the loop on a value, as the game is now
Condition(g, v) == IF g.loop.while = "open" THEN g.open ELSE Callback(g.loop.while, v)

HoldsUpTo(loop, k) == \A j \in 0..k : Callback(loop.while, Applied(loop.next, loop.initial, j))

CarriedUpTo(loop, k) == \A j \in 0..k : Callback(loop.while, Carried(loop, j))

AdvanceCompleted ==
  /\ reply'.returned = FlowControl.complete
  /\ game'.position.index = -1

AdvanceStep(following) ==
  reply'.op = "advance" =>
    IF game.position.index = -1
    THEN reply'.returned = FlowControl.complete /\ game'.position = game.position
    ELSE IF Condition(game, following)
    THEN /\ reply'.returned = FlowControl.ok
         /\ game'.position = [index |-> game.position.index + 1, value |-> following]
    ELSE AdvanceCompleted

IterationsAsToldInv ==
  /\ game.started /\ game.position.index >= 0 =>
       /\ game.position.value = Applied(game.loop.next, game.loop.initial, game.position.index)
       /\ game.loop.while # "open" => HoldsUpTo(game.loop, game.position.index)
  /\ game.started /\ game.position.index = -1 => currentBlock(game) = "undefined"

IterationsInv ==
  /\ game.started /\ game.position.index >= 0 =>
       /\ game.position.value = Carried(game.loop, game.position.index)
       /\ game.loop.while # "open" => CarriedUpTo(game.loop, game.position.index)
  /\ game.started /\ game.position.index = -1 => currentBlock(game) = "undefined"
  /\ game.started /\ game.position.index # -1 => currentBlock(game) = "block"

RepeatStep ==
  reply'.op = "repeat" =>
    IF game.position.index = -1 \/ Condition(game, game.position.value)
    THEN game'.position = game.position
    ELSE /\ reply'.returned = FlowControl.complete
         /\ game'.position = [game.position EXCEPT !.index = -1]

Rounds(g) == Len(g.order) * (IF g.loop.turns = 0 THEN 1 ELSE g.loop.turns)

\* the player the loop starts from: startingPlayer, or else the first player
Starting(g) == IF g.loop.startingPlayer # NoValue THEN g.loop.startingPlayer ELSE playerAt(g, 0)

\* the player k steps after the starting player in turn order
Stepped(g, k) == playerAt(g, (findIndex(g, positionOf(Starting(g))) + k) % Len(g.order))

TurnInv ==
  game.started /\ game.loop.continueUntil = "" /\ game.position.index >= 0 =>
    /\ game.position.index < Rounds(game)
    /\ game.position.value = Stepped(game, game.position.index)
    /\ game.currentPosition = positionOf(game.position.value)
    /\ game.ctx = game.position.value.v[1]

TurnStep ==
  game.loop.continueUntil = "" =>
    /\ reply'.op = "reset" => ~reply'.thrown /\ game'.position.index = 0
    /\ reply'.op = "advance" /\ game.position.index >= 0 =>
         IF game.position.index + 1 < Rounds(game)
         THEN /\ reply'.returned = FlowControl.ok
              /\ game'.position.index = game.position.index + 1
         ELSE /\ reply'.returned = FlowControl.complete
              /\ game'.position.index = -1

\* C39: an EachPlayer loop without continueUntil runs its block exactly
\* players.length x turns times (turns default 1) and then completes: reset()
\* starts iteration 0, advance() moves from iteration k to k + 1 while k + 1
\* is below that number and completes the loop after the last one; iteration
\* k is for the player k steps after the starting player in turn order,
\* wrapping around, and at each iteration the current player of the game and
\* the player context of the board are that player.
C39_EachPlayerTakesTurns == []TurnInv /\ [][TurnStep]_vars

\* currentPosition is the position of some player of the collection
NamesPlayer(g) == findIndex(g, g.currentPosition) # -1

NextStep ==
  reply'.op = "next" =>
    /\ ~reply'.thrown
    /\ game'.currentPosition =
         IF game.currentPosition = NoValue THEN Number(game.order[1], 1)
         ELSE Number(game.order[((findIndex(game, game.currentPosition) + 1)
                                   % Len(game.order)) + 1], 1)
    /\ reply'.returned = atPositionIn(game', game'.currentPosition)

OutOfRange(g, position) == position.n < position.d \/ position.n > Len(g.order) * position.d

SetCurrentStep(player) ==
  reply'.op = "setCurrent" /\ setCurrent(game, player) = [game |-> game', thrown |-> reply'.thrown,
                                                          value |-> reply'.returned] =>
    IF OutOfRange(game, positionOf(player))
    THEN reply'.thrown /\ game'.currentPosition = game.currentPosition
    ELSE ~reply'.thrown /\ game'.currentPosition = positionOf(player)

RoundSeen ==
  Len(reply.seen) = Len(game.order) =>
    /\ {reply.seen[k] : k \in 1..Len(reply.seen)}
         = {Player(game.order[k]) : k \in 1..Len(game.order)}
    /\ reply.from # NoValue => positionOf(reply.seen[Len(reply.seen)]) = reply.from

====
